---- MODULE Spec2Model ----
(***************************************************************************)
(* Model of the climate-control system's actuation path:                   *)
(*   climate_control/actuators.py  Actuator, ActuatorController            *)
(*   climate_control/main.py       ClimateControlSystem control loop       *)
(*   climate_control/dashboard.py  manual-override handler                 *)
(*                                                                         *)
(* Time is the integer clock `now` (time.time()); every handler runs at    *)
(* one instant.  The timing parameters of the configuration are scaled to  *)
(* small integers so that the cycle-time gate, the runtime cap and the     *)
(* sensor timeout all come into play within the explored horizon.          *)
(***************************************************************************)
EXTENDS Integers, FiniteSets, Sequences, TLC

\* ------------------------------------------------------------------ bounds
\* Scaled configuration values (settings.py ACTUATOR_* / SAFETY_SENSOR_TIMEOUT
\* are 10, 600, 1800, 1200 and 30 seconds).
MinCycleTime == 2
MaxPumpRuntime == 2
MaxChillerRuntime == 3
MaxDehumidifierRuntime == 3
SensorTimeout == 2
\* Number of clock ticks explored after start-up.
Horizon == 3

\* Manual-override requests handled in one run.
MaxRequests == 1
\* Output writes that fail in one run.
MaxWriteFailures == 1

\* time.time() at construction: far beyond min_cycle_time after the epoch, so
\* that the initial last_state_change = 0 never blocks the first turn-on.
T0 == MinCycleTime + 1
MaxTime == T0 + Horizon

\* ------------------------------------------------------------ configuration
EnableWaterLevelCheck == TRUE

Actuators == {"pump", "chiller", "dehumidifier"}

\* None of Python
None == -1

max_runtime(name) ==
  CASE name = "pump" -> MaxPumpRuntime
    [] name = "chiller" -> MaxChillerRuntime
    [] OTHER -> MaxDehumidifierRuntime

\* Python truthiness of an Optional[float] timestamp
Truthy(t) == t # None /\ t # 0

VARIABLES
  now,               \* time.time()
  act,               \* ActuatorController.actuators: name -> Actuator fields
  gpio,              \* physical relay outputs: TRUE = energised
  gpio_initialized,  \* ActuatorController.gpio_initialized
  water_level_ok,    \* ActuatorController.water_level_ok (cached)
  emergency_mode,    \* ActuatorController.emergency_mode
  waterRead,         \* what the handler read from the water-level input pin:
                     \* "HIGH" (adequate), "LOW", "ERR" (the read raised),
                     \* "-" (the handler did not read it)
  manual_override,   \* Dashboard.manual_override
  last_reading_time, \* SHT35Sensor.last_reading_time
  pc,                \* position of the control loop inside its iteration
  decision,          \* actuator targets of the iteration's ControlDecision
  changedAt,         \* per actuator: when it last went from ON to not ON or
                     \* back, by whatever operation (None: never)
  requests,          \* manual-override requests handled so far
  writeFailures,     \* output writes that have failed so far
  autoCycle,         \* the last decision was applied automatically and no
                     \* manual command has been handled since
  op,                \* the handler or step that produced this state
  call,              \* per actuator: the Actuator method the handler called
  mid,               \* per actuator: its fields on return from that method
  ret,               \* per actuator: what set_pump/set_chiller/... returned
  all_ok             \* what check_safety returned ("-": it did not run)

\* The actuation side
avars == <<now, act, gpio, gpio_initialized, water_level_ok, emergency_mode,
           waterRead, manual_override, last_reading_time, pc, decision,
           changedAt, requests, writeFailures, autoCycle, op, call, mid, ret,
           all_ok>>

\* The control engine (HybridControlEngine)
VARIABLES
  config,               \* the configuration the engine was constructed with
  clock,                \* time.time() of the engine, in ticks
  temp_target,          \* HybridControlEngine.temp_target
  humidity_target,      \* HybridControlEngine.humidity_target
  reading_history,      \* reading_history (temp_history and humidity_history
                        \* hold the fields of the same readings)
  current_mode,
  last_decision,
  last_mode_change,
  spray_last_activated,
  decisions_made,
  mode_durations,
  advances,             \* clock advances so far
  calls,                \* engine method calls so far
  eop,                  \* the engine method that produced this state
  earg,                 \* the preset name it was called with ("-": none)
  eret,                 \* what it returned, for load_preset
  obs,                  \* what the last make_decision computed and returned
  epc                   \* where the control cycle is inside execute_decision

engine == <<config, temp_target, humidity_target, reading_history,
            current_mode, last_decision, last_mode_change,
            spray_last_activated, decisions_made, mode_durations>>

evars == <<engine, clock, advances, calls, eop, earg, eret, obs, epc>>

\* The data logger (DataLogger), as the control loop sees it
VARIABLES
  sink                  \* what the database write of log_control_decision
                        \* did in this iteration: "ok", "sqlite3.Error" (it
                        \* raised inside the logger), "-" (no write yet)

\* Two threads inside Actuator.turn_on / turn_off of one actuator
VARIABLES
  thr,                  \* per thread: the statement it is about to execute,
                        \* its local variable runtime, the commands it has
                        \* still to issue
  activations,          \* how often the actuator went from not ON to ON
  additions             \* how often a run was added to total_runtime

rvars == <<thr, activations, additions>>

\* The process around the control loop (ClimateControlSystem.run / stop)
VARIABLES
  running               \* ClimateControlSystem.running

xvars == <<sink, rvars, running>>

vars == <<avars, evars, xvars>>

\* ------------------------------------------------------------------ Actuator

NewActuator ==
  [state |-> "OFF", last_state_change |-> 0, runtime_start |-> None,
   total_runtime |-> 0, cycle_count |-> 0]

\* Variant: the gate opens only strictly after min_cycle_time.
can_change_state_strict(a, t) == t - a.last_state_change > MinCycleTime

can_change_state(a, t) == t - a.last_state_change >= MinCycleTime

\* Variant: the cap is exceeded only strictly after max_runtime.
is_runtime_exceeded_strict(name, a, t) ==
  IF a.state = "ON" /\ Truthy(a.runtime_start)
  THEN t - a.runtime_start > max_runtime(name)
  ELSE FALSE

is_runtime_exceeded(name, a, t) ==
  IF a.state = "ON" /\ Truthy(a.runtime_start)
  THEN t - a.runtime_start >= max_runtime(name)
  ELSE FALSE

\* Variant: a turn_on of an actuator that is ON restarts its runtime clock.
turn_on_restarts_clock(a, t) ==
  IF a.state = "ON"
  THEN [ok |-> TRUE, a |-> [a EXCEPT !.runtime_start = t]]
  ELSE IF ~can_change_state(a, t) THEN [ok |-> FALSE, a |-> a]
  ELSE [ok |-> TRUE,
        a |-> [a EXCEPT !.state = "ON",
                        !.last_state_change = t,
                        !.runtime_start = t,
                        !.cycle_count = @ + 1]]

\* turn_on / turn_off return [ok |-> return value, a |-> fields on return]
turn_on(a, t) ==
  IF a.state = "ON" THEN [ok |-> TRUE, a |-> a]
  ELSE IF ~can_change_state(a, t) THEN [ok |-> FALSE, a |-> a]
  ELSE [ok |-> TRUE,
        a |-> [a EXCEPT !.state = "ON",
                        !.last_state_change = t,
                        !.runtime_start = t,
                        !.cycle_count = @ + 1]]

\* Variant: turn_off honours the cycle-time gate as turn_on does.
turn_off_gated(a, t) ==
  IF a.state = "OFF" THEN [ok |-> TRUE, a |-> a]
  ELSE IF ~can_change_state(a, t) THEN [ok |-> FALSE, a |-> a]
  ELSE [ok |-> TRUE,
        a |-> [a EXCEPT !.total_runtime =
                           IF a.state = "ON" /\ Truthy(a.runtime_start)
                           THEN @ + (t - a.runtime_start) ELSE @,
                        !.state = "OFF",
                        !.last_state_change = t,
                        !.runtime_start = None]]

turn_off(a, t) ==
  IF a.state = "OFF" THEN [ok |-> TRUE, a |-> a]
  ELSE [ok |-> TRUE,
        a |-> [a EXCEPT !.total_runtime =
                           IF a.state = "ON" /\ Truthy(a.runtime_start)
                           THEN @ + (t - a.runtime_start) ELSE @,
                        !.state = "OFF",
                        !.last_state_change = t,
                        !.runtime_start = None]]

\* Variant: emergency_stop books the interrupted run as turn_off does.
emergency_stop_accumulates(a) ==
  [a EXCEPT !.total_runtime = IF a.state = "ON" /\ Truthy(a.runtime_start)
                              THEN @ + (now - a.runtime_start) ELSE @,
            !.state = "OFF",
            !.runtime_start = None]

\* Variant: emergency_stop leaves the runtime clock running.
emergency_stop_keeps_clock(a) == [a EXCEPT !.state = "OFF"]

emergency_stop(a) == [a EXCEPT !.state = "OFF", !.runtime_start = None]

\* -------------------------------------------------------- ActuatorController

\* The controller's mutable state while one handler runs.  call, mid and ret
\* record, per actuator, what the handler did to it.
NoCall == [cmd |-> "-", ok |-> TRUE]

Bank ==
  [act |-> act, gpio |-> gpio, wl |-> water_level_ok, em |-> emergency_mode,
   wf |-> writeFailures, wr |-> "-",
   call |-> [n \in Actuators |-> NoCall],
   mid |-> act,
   ret |-> [n \in Actuators |-> "-"]]

Bool(x) == IF x THEN "T" ELSE "F"

\* GPIO.output(pin, value); fails = the actuators whose output write raises
\* in this handler.  A failed write leaves the pin as it was.
_set_gpio_state(b, n, st, fails) ==
  IF ~gpio_initialized THEN b
  ELSE IF n \in fails THEN [b EXCEPT !.act[n].state = "FAULT", !.wf = @ + 1]
  ELSE [b EXCEPT !.gpio[n] = st]

\* Variant: the check answers from the cached water_level_ok instead of
\* from the pin it has just read.
check_water_level_cached(b, rd) ==
  IF ~gpio_initialized THEN [ok |-> TRUE, b |-> b]
  ELSE IF ~EnableWaterLevelCheck THEN [ok |-> TRUE, b |-> b]
  ELSE IF rd = "ERR" THEN [ok |-> FALSE, b |-> [b EXCEPT !.wr = rd]]
  ELSE [ok |-> b.wl,
        b |-> [b EXCEPT !.wl = (rd = "HIGH"), !.wr = rd]]

\* rd: what GPIO.input gives in this handler, "HIGH", "LOW" or "ERR" (it
\* raises).  Returns [ok, b].
check_water_level(b, rd) ==
  IF ~gpio_initialized THEN [ok |-> TRUE, b |-> b]
  ELSE IF ~EnableWaterLevelCheck THEN [ok |-> TRUE, b |-> b]
  ELSE IF rd = "ERR" THEN [ok |-> FALSE, b |-> [b EXCEPT !.wr = rd]]
  ELSE [ok |-> (rd = "HIGH"),
        b |-> [b EXCEPT !.wl = (rd = "HIGH"), !.wr = rd]]

\* The body shared by set_pump (after its water check), set_chiller and
\* set_dehumidifier: delegate to the actuator, mirror into the output on success.
Command(b, n, st, fails) ==
  LET r == IF st THEN turn_on(b.act[n], now) ELSE turn_off(b.act[n], now)
      b1 == [b EXCEPT !.act[n] = r.a,
                      !.mid[n] = r.a,
                      !.call[n] = [cmd |-> IF st THEN "turn_on" ELSE "turn_off",
                                   ok |-> r.ok],
                      !.ret[n] = Bool(r.ok)]
  IN IF r.ok THEN _set_gpio_state(b1, n, st, fails) ELSE b1

set_pump(b, st, fails, rd) ==
  IF st
  THEN LET w == check_water_level(b, rd)
       IN IF ~w.ok THEN [w.b EXCEPT !.ret["pump"] = "F"]
          ELSE Command(w.b, "pump", TRUE, fails)
  ELSE Command(b, "pump", FALSE, fails)

set_chiller(b, st, fails) == Command(b, "chiller", st, fails)

set_dehumidifier(b, st, fails) == Command(b, "dehumidifier", st, fails)

\* Variant: all_ok is cleared only where an actuator is switched off.
check_safety_intervention_only(b, fails, rd) ==
  LET ex(n) == is_runtime_exceeded(n, b.act[n], now)
      b1 == IF ex("pump") THEN set_pump(b, FALSE, fails, rd) ELSE b
      b2 == IF ex("chiller") THEN set_chiller(b1, FALSE, fails) ELSE b1
      b3 == IF ex("dehumidifier") THEN set_dehumidifier(b2, FALSE, fails) ELSE b2
      w == check_water_level(b3, rd)
      low == ~w.ok /\ w.b.act["pump"].state = "ON"
      b4 == IF low THEN set_pump(w.b, FALSE, fails, rd) ELSE w.b
  IN [ok |-> ~low /\ ~(\E n \in Actuators : ex(n)), b |-> b4]

\* Returns [ok, b]: ok is check_safety's all_ok.
check_safety(b, fails, rd) ==
  LET ex(n) == is_runtime_exceeded(n, b.act[n], now)
      b1 == IF ex("pump") THEN set_pump(b, FALSE, fails, rd) ELSE b
      b2 == IF ex("chiller") THEN set_chiller(b1, FALSE, fails) ELSE b1
      b3 == IF ex("dehumidifier") THEN set_dehumidifier(b2, FALSE, fails) ELSE b2
      w == check_water_level(b3, rd)
      b4 == IF ~w.ok /\ w.b.act["pump"].state = "ON"
            THEN set_pump(w.b, FALSE, fails, rd) ELSE w.b
  IN [ok |-> w.ok /\ ~(\E n \in Actuators : ex(n)), b |-> b4]

EStop(b, n, fails) ==
  _set_gpio_state([b EXCEPT !.act[n] = emergency_stop(@),
                            !.mid[n] = emergency_stop(b.act[n]),
                            !.call[n] = [cmd |-> "emergency_stop", ok |-> TRUE]],
                  n, FALSE, fails)

emergency_shutdown(b, fails) ==
  EStop(EStop(EStop([b EXCEPT !.em = TRUE], "pump", fails), "chiller", fails),
        "dehumidifier", fails)

\* The handler's effects become the new state.
Commit(b) ==
  /\ act' = b.act
  /\ gpio' = b.gpio
  /\ water_level_ok' = b.wl
  /\ emergency_mode' = b.em
  /\ writeFailures' = b.wf
  /\ waterRead' = b.wr
  /\ b.wf <= MaxWriteFailures
  /\ call' = b.call
  /\ mid' = b.mid
  /\ ret' = b.ret
  /\ changedAt' = [n \in Actuators |->
       IF (act[n].state = "ON") # (b.mid[n].state = "ON")
          \/ (b.mid[n].state = "ON") # (b.act[n].state = "ON")
       THEN now ELSE changedAt[n]]

\* Steps outside the controller leave it alone and clear the call record.
NoHandler ==
  /\ UNCHANGED <<act, gpio, water_level_ok, emergency_mode, writeFailures,
                 changedAt>>
  /\ waterRead' = "-"
  /\ call' = [n \in Actuators |-> NoCall]
  /\ mid' = act
  /\ ret' = [n \in Actuators |-> "-"]

\* Output-write and input-read failures exist only with real GPIO.
FailSets ==
  IF gpio_initialized /\ writeFailures < MaxWriteFailures
  THEN SUBSET Actuators ELSE {{}}
WaterReads ==
  IF gpio_initialized /\ EnableWaterLevelCheck
  THEN {"HIGH", "LOW", "ERR"} ELSE {"HIGH"}

\* ------------------------------------------------- threads on one actuator
\* The control loop (main thread) and the dashboard (background thread,
\* dashboard.py 340-346) both reach Actuator.turn_on and turn_off through
\* the controller's set_* methods; neither the actuator nor the controller
\* holds a lock.  Here each statement of turn_on / turn_off is a step, and
\* the two threads work on the same actuator.
MaxCommands == 2

Threads == {"control", "dashboard"}
RaceActuator == "chiller"

\* pc "idle": not inside a method; "raised": the method raised TypeError
NewThread == [pc |-> "idle", runtime |-> 0, left |-> MaxCommands]

RaceInit ==
  /\ thr = [t \in Threads |-> NewThread]
  /\ activations = 0
  /\ additions = 0

RaceFrame ==
  UNCHANGED <<gpio, gpio_initialized, water_level_ok, emergency_mode,
              waterRead, manual_override, last_reading_time, pc, decision,
              changedAt, requests, writeFailures, autoCycle, op, call, mid,
              ret, all_ok, evars, sink, running>>

\* A thread enters turn_on or turn_off (set_chiller(True / False)).
StartCommand(t) ==
  /\ thr[t].pc \in {"idle", "raised"}
  /\ thr[t].left > 0
  /\ \E first \in {"on1", "off1"} :
       thr' = [thr EXCEPT ![t].pc = first, ![t].left = @ - 1]
  /\ UNCHANGED <<now, act, activations, additions>>
  /\ RaceFrame

\* One statement of turn_on (actuators.py 100-113)
TurnOnStep(t) ==
  LET a == act[RaceActuator]
      goto(l) == thr' = [thr EXCEPT ![t].pc = l]
      set(b) == act' = [act EXCEPT ![RaceActuator] = b]
  IN /\ CASE thr[t].pc = "on1" ->
             /\ goto(IF a.state = "ON" THEN "idle" ELSE "on2")
             /\ UNCHANGED <<act, activations>>
          [] thr[t].pc = "on2" ->
             /\ goto(IF ~can_change_state(a, now) THEN "idle" ELSE "on3")
             /\ UNCHANGED <<act, activations>>
          [] thr[t].pc = "on3" ->
             /\ set([a EXCEPT !.state = "ON"])
             /\ activations' = IF a.state = "ON" THEN activations
                               ELSE activations + 1
             /\ goto("on4")
          [] thr[t].pc = "on4" ->
             /\ set([a EXCEPT !.last_state_change = now])
             /\ goto("on5")
             /\ UNCHANGED activations
          [] thr[t].pc = "on5" ->
             /\ set([a EXCEPT !.runtime_start = now])
             /\ goto("on6")
             /\ UNCHANGED activations
          [] thr[t].pc = "on6" ->
             /\ set([a EXCEPT !.cycle_count = @ + 1])
             /\ goto("idle")
             /\ UNCHANGED activations
          [] OTHER -> FALSE
     /\ UNCHANGED <<now, additions>>
     /\ RaceFrame

\* One statement of turn_off (actuators.py 122-135)
TurnOffStep(t) ==
  LET a == act[RaceActuator]
      goto(l) == thr' = [thr EXCEPT ![t].pc = l]
      set(b) == act' = [act EXCEPT ![RaceActuator] = b]
  IN /\ CASE thr[t].pc = "off1" ->
             /\ goto(IF a.state = "OFF" THEN "idle" ELSE "off2")
             /\ UNCHANGED <<act, additions>>
          [] thr[t].pc = "off2" ->
             /\ goto(IF a.state = "ON" /\ Truthy(a.runtime_start)
                     THEN "off3" ELSE "off5")
             /\ UNCHANGED <<act, additions>>
          [] thr[t].pc = "off3" ->
             \* runtime = time.time() - self.runtime_start
             /\ IF a.runtime_start = None
                THEN goto("raised")
                ELSE thr' = [thr EXCEPT ![t].pc = "off4",
                                        ![t].runtime = now - a.runtime_start]
             /\ UNCHANGED <<act, additions>>
          [] thr[t].pc = "off4" ->
             /\ set([a EXCEPT !.total_runtime = @ + thr[t].runtime])
             /\ additions' = additions + 1
             /\ goto("off5")
          [] thr[t].pc = "off5" ->
             /\ set([a EXCEPT !.state = "OFF"])
             /\ goto("off6")
             /\ UNCHANGED additions
          [] thr[t].pc = "off6" ->
             /\ set([a EXCEPT !.last_state_change = now])
             /\ goto("off7")
             /\ UNCHANGED additions
          [] thr[t].pc = "off7" ->
             /\ set([a EXCEPT !.runtime_start = None])
             /\ goto("idle")
             /\ UNCHANGED additions
          [] OTHER -> FALSE
     /\ UNCHANGED <<now, activations>>
     /\ RaceFrame

\* Time passes, wherever the threads stand.
RaceTick ==
  /\ now < MaxTime
  /\ now' = now + 1
  /\ UNCHANGED <<act, thr, activations, additions>>
  /\ RaceFrame

\* ============================================================ control engine
\* climate_control/control_engine.py  HybridControlEngine
\*
\* Units: temperatures in tenths of a degree C, humidities in tenths of a
\* percent, engine time (`clock`) in ticks of 1/TicksPerSecond second.  A rate
\* of change is the exact fraction num/den in tenths per minute; floating-point
\* rounding is not modelled.

TicksPerSecond == 2
\* deque(maxlen=history_samples); 20 in settings.py
HistorySamples == 2
\* Engine method calls (make_decision, set_targets, load_preset) and clock
\* advances in one run
MaxCalls == 2
MaxAdvances == 2

TempHysteresis == 5
HumidityHysteresis == 20
TempRateWarning == 5
HumidityRateWarning == 20
PredictionWindow == 5
SprayCooldown == 30
EmergencyShutdownTemp == 150
TimeWindow == 60

\* The setpoints main.py passes (settings.get_config_dict) and those of an
\* engine constructed without configuration (app.py): the constructor's
\* defaults, and no presets.
Presets ==
  [mango |-> [temp_target |-> 110, humidity_target |-> 875],
   leafy_greens |-> [temp_target |-> 40, humidity_target |-> 950],
   berries |-> [temp_target |-> 20, humidity_target |-> 900],
   tomatoes |-> [temp_target |-> 130, humidity_target |-> 850],
   citrus |-> [temp_target |-> 80, humidity_target |-> 850]]

SettingsConfig ==
  [temp_target |-> 110, temp_min |-> 100, temp_max |-> 122,
   humidity_target |-> 875, humidity_min |-> 850, humidity_max |-> 900,
   presets |-> DOMAIN Presets]

DefaultConfig ==
  [temp_target |-> 50, temp_min |-> 20, temp_max |-> 80,
   humidity_target |-> 900, humidity_min |-> 850, humidity_max |-> 950,
   presets |-> {}]

Modes == {"idle", "evaporative", "chiller", "dehumidify",
          "cool_and_dehumidify", "emergency"}

ControlDecision(m, p, c, d, prio) ==
  [mode |-> m, pump |-> p, chiller |-> c, dehumidifier |-> d, priority |-> prio]

NoDecision == ControlDecision("-", FALSE, FALSE, FALSE, 0)

\* Optional[float]: known = FALSE is None
NoRate == [known |-> FALSE, num |-> 0, den |-> 1]
Rate(n, d) == [known |-> TRUE, num |-> n, den |-> d]

Abs(x) == IF x < 0 THEN -x ELSE x
Max2(x, y) == IF x >= y THEN x ELSE y

SensorReading(temperature, humidity, t) ==
  [temperature |-> temperature, humidity |-> humidity, timestamp |-> t]

\* deque.append with maxlen: the oldest entry falls out
add_reading(hist, temperature, humidity, t) ==
  LET h == Append(hist, SensorReading(temperature, humidity, t))
  IN IF Len(h) > HistorySamples THEN Tail(h) ELSE h

\* How many of the newest readings lie within the window, scanning from the
\* newest and stopping at the first that does not.
RECURSIVE RecentCount(_, _, _)
RecentCount(hist, i, t) ==
  IF i = 0 THEN 0
  ELSE IF t - hist[i].timestamp <= TimeWindow * TicksPerSecond
       THEN 1 + RecentCount(hist, i - 1, t)
       ELSE 0

SetMax(S) == CHOOSE x \in S : \A y \in S : y <= x
SetMin(S) == CHOOSE x \in S : \A y \in S : x <= y

\* Variant: a span of less than one second yields a rate of 0.
calculate_rate_of_change_zero_span(hist, field, t) ==
  IF Len(hist) < 2 THEN NoRate
  ELSE LET k == RecentCount(hist, Len(hist), t)
       IN IF k < 2 THEN NoRate
          ELSE LET idx == (Len(hist) - k + 1) .. Len(hist)
                   times == {hist[i].timestamp : i \in idx}
                   time_range == SetMax(times) - SetMin(times)
                   value_change == hist[Len(hist) - k + 1][field]
                                     - hist[Len(hist)][field]
               IN IF time_range < TicksPerSecond THEN Rate(0, 1)
                  ELSE Rate(value_change * 60 * TicksPerSecond, time_range)

\* values = temp_history or humidity_history, which hold the field of the
\* same readings as reading_history.  recent_readings lists the newest
\* first, so vals[-1] - vals[0] is oldest minus newest.
calculate_rate_of_change(hist, field, t) ==
  IF Len(hist) < 2 THEN NoRate
  ELSE LET k == RecentCount(hist, Len(hist), t)
       IN IF k < 2 THEN NoRate
          ELSE LET idx == (Len(hist) - k + 1) .. Len(hist)
                   times == {hist[i].timestamp : i \in idx}
                   time_range == SetMax(times) - SetMin(times)
                   value_change == hist[Len(hist) - k + 1][field]
                                     - hist[Len(hist)][field]
               IN IF time_range < TicksPerSecond THEN NoRate
                  ELSE Rate(value_change * 60 * TicksPerSecond, time_range)

\* |rate| > warning and the sign of (current + rate * minutes) - limit,
\* all multiplied through by the (positive) denominator
RateBeyond(rate, warning) ==
  rate.known /\ Abs(rate.num) > warning * rate.den
FutureAbove(current, rate, limit) ==
  current * rate.den + rate.num * PredictionWindow > limit * rate.den
FutureBelow(current, rate, limit) ==
  current * rate.den + rate.num * PredictionWindow < limit * rate.den

Assessment(l, u) == [label |-> l, urgency |-> u]

assess_temperature(s, temperature, temp_rate) ==
  IF temperature > s.temp_max + 20 THEN Assessment("critically high", 10)
  ELSE IF temperature > s.temp_max THEN Assessment("high", 8)
  ELSE IF temperature > s.temp_target + TempHysteresis
       THEN Assessment("above target", 6)
  ELSE IF temperature < s.temp_min THEN Assessment("critically low", 9)
  ELSE IF temperature < s.temp_target - TempHysteresis
       THEN Assessment("below target", 3)
  ELSE IF RateBeyond(temp_rate, TempRateWarning)
          /\ FutureAbove(temperature, temp_rate, s.temp_max)
       THEN Assessment("rising rapidly", 7)
  ELSE IF RateBeyond(temp_rate, TempRateWarning)
          /\ FutureBelow(temperature, temp_rate, s.temp_min)
       THEN Assessment("falling rapidly", 4)
  ELSE Assessment("optimal", 0)

\* Variant: the target tiers ignore the hysteresis band.
assess_humidity_no_hysteresis(s, humidity, humidity_rate) ==
  IF humidity > s.humidity_max + 50 THEN Assessment("critically high", 9)
  ELSE IF humidity > s.humidity_max THEN Assessment("high", 7)
  ELSE IF humidity > s.humidity_target THEN Assessment("above target", 5)
  ELSE IF humidity < s.humidity_min THEN Assessment("critically low", 8)
  ELSE IF humidity < s.humidity_target THEN Assessment("below target", 4)
  ELSE IF RateBeyond(humidity_rate, HumidityRateWarning)
          /\ FutureAbove(humidity, humidity_rate, s.humidity_max)
       THEN Assessment("rising rapidly", 6)
  ELSE IF RateBeyond(humidity_rate, HumidityRateWarning)
          /\ FutureBelow(humidity, humidity_rate, s.humidity_min)
       THEN Assessment("falling rapidly", 5)
  ELSE Assessment("optimal", 0)

assess_humidity(s, humidity, humidity_rate) ==
  IF humidity > s.humidity_max + 50 THEN Assessment("critically high", 9)
  ELSE IF humidity > s.humidity_max THEN Assessment("high", 7)
  ELSE IF humidity > s.humidity_target + HumidityHysteresis
       THEN Assessment("above target", 5)
  ELSE IF humidity < s.humidity_min THEN Assessment("critically low", 8)
  ELSE IF humidity < s.humidity_target - HumidityHysteresis
       THEN Assessment("below target", 4)
  ELSE IF RateBeyond(humidity_rate, HumidityRateWarning)
          /\ FutureAbove(humidity, humidity_rate, s.humidity_max)
       THEN Assessment("rising rapidly", 6)
  ELSE IF RateBeyond(humidity_rate, HumidityRateWarning)
          /\ FutureBelow(humidity, humidity_rate, s.humidity_min)
       THEN Assessment("falling rapidly", 5)
  ELSE Assessment("optimal", 0)

can_spray_now(last_activated, t) ==
  t - last_activated >= SprayCooldown * TicksPerSecond

\* Variant: the emergency test comes after the critical-heat rule.
decision_logic_emergency_late(s, temperature, humidity, tu, hu, temp_rate, spray_ok) ==
  IF tu >= 8
  THEN IF humidity < s.humidity_max
       THEN ControlDecision("chiller", TRUE, TRUE, FALSE, tu)
       ELSE ControlDecision("cool_and_dehumidify", FALSE, TRUE, TRUE,
                            Max2(tu, hu))
  ELSE IF temperature > EmergencyShutdownTemp
  THEN ControlDecision("emergency", TRUE, TRUE, FALSE, 10)
  ELSE IF hu >= 7
  THEN IF tu > 3
       THEN ControlDecision("cool_and_dehumidify", FALSE, TRUE, TRUE,
                            Max2(tu, hu))
       ELSE ControlDecision("dehumidify", FALSE, FALSE, TRUE, hu)
  ELSE IF tu >= 4 /\ humidity < s.humidity_max - 50 /\ spray_ok
  THEN ControlDecision("evaporative", TRUE, FALSE, FALSE, tu)
  ELSE IF tu >= 3 /\ hu >= 3
  THEN ControlDecision("chiller", TRUE, TRUE, FALSE, Max2(tu, hu))
  ELSE IF temp_rate.known
          /\ temp_rate.num > TempRateWarning * temp_rate.den
          /\ humidity < s.humidity_max - 30
  THEN ControlDecision("evaporative", TRUE, FALSE, FALSE, 5)
  ELSE ControlDecision("idle", FALSE, FALSE, FALSE, 0)

\* Variant: the dual-drift rule is tried before the evaporative rule.
decision_logic_dual_first(s, temperature, humidity, tu, hu, temp_rate, spray_ok) ==
  IF temperature > EmergencyShutdownTemp
  THEN ControlDecision("emergency", TRUE, TRUE, FALSE, 10)
  ELSE IF tu >= 8
  THEN IF humidity < s.humidity_max
       THEN ControlDecision("chiller", TRUE, TRUE, FALSE, tu)
       ELSE ControlDecision("cool_and_dehumidify", FALSE, TRUE, TRUE,
                            Max2(tu, hu))
  ELSE IF hu >= 7
  THEN IF tu > 3
       THEN ControlDecision("cool_and_dehumidify", FALSE, TRUE, TRUE,
                            Max2(tu, hu))
       ELSE ControlDecision("dehumidify", FALSE, FALSE, TRUE, hu)
  ELSE IF tu >= 3 /\ hu >= 3
  THEN ControlDecision("chiller", TRUE, TRUE, FALSE, Max2(tu, hu))
  ELSE IF tu >= 4 /\ humidity < s.humidity_max - 50 /\ spray_ok
  THEN ControlDecision("evaporative", TRUE, FALSE, FALSE, tu)
  ELSE IF temp_rate.known
          /\ temp_rate.num > TempRateWarning * temp_rate.den
          /\ humidity < s.humidity_max - 30
  THEN ControlDecision("evaporative", TRUE, FALSE, FALSE, 5)
  ELSE ControlDecision("idle", FALSE, FALSE, FALSE, 0)

\* Variant: the predictive rule does not look at the humidity headroom.
decision_logic_predictive_no_headroom(s, temperature, humidity, tu, hu, temp_rate, spray_ok) ==
  IF temperature > EmergencyShutdownTemp
  THEN ControlDecision("emergency", TRUE, TRUE, FALSE, 10)
  ELSE IF tu >= 8
  THEN IF humidity < s.humidity_max
       THEN ControlDecision("chiller", TRUE, TRUE, FALSE, tu)
       ELSE ControlDecision("cool_and_dehumidify", FALSE, TRUE, TRUE,
                            Max2(tu, hu))
  ELSE IF hu >= 7
  THEN IF tu > 3
       THEN ControlDecision("cool_and_dehumidify", FALSE, TRUE, TRUE,
                            Max2(tu, hu))
       ELSE ControlDecision("dehumidify", FALSE, FALSE, TRUE, hu)
  ELSE IF tu >= 4 /\ humidity < s.humidity_max - 50 /\ spray_ok
  THEN ControlDecision("evaporative", TRUE, FALSE, FALSE, tu)
  ELSE IF tu >= 3 /\ hu >= 3
  THEN ControlDecision("chiller", TRUE, TRUE, FALSE, Max2(tu, hu))
  ELSE IF temp_rate.known
          /\ temp_rate.num > TempRateWarning * temp_rate.den
  THEN ControlDecision("evaporative", TRUE, FALSE, FALSE, 5)
  ELSE ControlDecision("idle", FALSE, FALSE, FALSE, 0)

\* Variant: the critical-heat rule does not look at the humidity.
decision_logic_heat_ignores_humidity(s, temperature, humidity, tu, hu, temp_rate, spray_ok) ==
  IF temperature > EmergencyShutdownTemp
  THEN ControlDecision("emergency", TRUE, TRUE, FALSE, 10)
  ELSE IF tu >= 8
  THEN ControlDecision("chiller", TRUE, TRUE, FALSE, tu)
  ELSE IF hu >= 7
  THEN IF tu > 3
       THEN ControlDecision("cool_and_dehumidify", FALSE, TRUE, TRUE,
                            Max2(tu, hu))
       ELSE ControlDecision("dehumidify", FALSE, FALSE, TRUE, hu)
  ELSE IF tu >= 4 /\ humidity < s.humidity_max - 50 /\ spray_ok
  THEN ControlDecision("evaporative", TRUE, FALSE, FALSE, tu)
  ELSE IF tu >= 3 /\ hu >= 3
  THEN ControlDecision("chiller", TRUE, TRUE, FALSE, Max2(tu, hu))
  ELSE IF temp_rate.known
          /\ temp_rate.num > TempRateWarning * temp_rate.den
          /\ humidity < s.humidity_max - 30
  THEN ControlDecision("evaporative", TRUE, FALSE, FALSE, 5)
  ELSE ControlDecision("idle", FALSE, FALSE, FALSE, 0)

\* make_decision, lines 317-420: the ordered rules, given the assessments
decision_logic(s, temperature, humidity, tu, hu, temp_rate, spray_ok) ==
  IF temperature > EmergencyShutdownTemp
  THEN ControlDecision("emergency", TRUE, TRUE, FALSE, 10)
  ELSE IF tu >= 8
  THEN IF humidity < s.humidity_max
       THEN ControlDecision("chiller", TRUE, TRUE, FALSE, tu)
       ELSE ControlDecision("cool_and_dehumidify", FALSE, TRUE, TRUE,
                            Max2(tu, hu))
  ELSE IF hu >= 7
  THEN IF tu > 3
       THEN ControlDecision("cool_and_dehumidify", FALSE, TRUE, TRUE,
                            Max2(tu, hu))
       ELSE ControlDecision("dehumidify", FALSE, FALSE, TRUE, hu)
  ELSE IF tu >= 4 /\ humidity < s.humidity_max - 50 /\ spray_ok
  THEN ControlDecision("evaporative", TRUE, FALSE, FALSE, tu)
  ELSE IF tu >= 3 /\ hu >= 3
  THEN ControlDecision("chiller", TRUE, TRUE, FALSE, Max2(tu, hu))
  ELSE IF temp_rate.known
          /\ temp_rate.num > TempRateWarning * temp_rate.den
          /\ humidity < s.humidity_max - 30
  THEN ControlDecision("evaporative", TRUE, FALSE, FALSE, 5)
  ELSE ControlDecision("idle", FALSE, FALSE, FALSE, 0)

\* Returns the history with the new reading, the decision, and what the
\* decision was computed from.
make_decision(s, hist, spray_last, temperature, humidity, t) ==
  LET h == add_reading(hist, temperature, humidity, t)
      temp_rate == calculate_rate_of_change(h, "temperature", t)
      humidity_rate == calculate_rate_of_change(h, "humidity", t)
      ta == assess_temperature(s, temperature, temp_rate)
      ha == assess_humidity(s, humidity, humidity_rate)
      spray_ok == can_spray_now(spray_last, t)
  IN [history |-> h,
      decision |-> decision_logic(s, temperature, humidity, ta.urgency,
                                  ha.urgency, temp_rate, spray_ok),
      temperature |-> temperature, humidity |-> humidity,
      temp_rate |-> temp_rate, humidity_rate |-> humidity_rate,
      temp_urgency |-> ta.urgency, humidity_urgency |-> ha.urgency,
      temp_assessment |-> ta.label, humidity_assessment |-> ha.label,
      spray_ok |-> spray_ok]

\* execute_decision on a mode change, first half: the first time.time() and
\* the addition of the closed interval to the counter of the mode left
close_mode_interval(k, t) ==
  [k EXCEPT !.mode_durations[k.current_mode] = @ + (t - k.last_mode_change)]

\* Variant: every executed decision restarts the spray cooldown.
track_decision_always_sprays(k, d, t, changed) ==
  [k EXCEPT !.last_mode_change = IF changed THEN t ELSE @,
            !.current_mode = d.mode,
            !.last_decision = d,
            !.decisions_made = @ + 1,
            !.spray_last_activated = t]

\* execute_decision, the rest: on a mode change the second time.time()
\* opens the interval of the new mode; then the tracking fields
track_decision(k, d, t, changed) ==
  [k EXCEPT !.last_mode_change = IF changed THEN t ELSE @,
            !.current_mode = d.mode,
            !.last_decision = d,
            !.decisions_made = @ + 1,
            !.spray_last_activated = IF d.pump THEN t ELSE @]

\* execute_decision run without interruption at one instant
execute_decision(k, d, t) ==
  IF k.current_mode # d.mode
  THEN track_decision(close_mode_interval(k, t), d, t, TRUE)
  ELSE track_decision(k, d, t, FALSE)

\* set_targets: None leaves a target as it is.  Returns the two targets.
set_targets(tt, ht, new_tt, new_ht) ==
  [temp_target |-> IF new_tt # None THEN new_tt ELSE tt,
   humidity_target |-> IF new_ht # None THEN new_ht ELSE ht]

\* Variant: an unknown name falls back to the mango preset.
load_preset_fallback(presets, tt, ht, preset_name) ==
  LET name == IF preset_name \notin presets THEN "mango" ELSE preset_name
      r == set_targets(tt, ht, Presets[name].temp_target,
                       Presets[name].humidity_target)
  IN [ok |-> TRUE, temp_target |-> r.temp_target,
      humidity_target |-> r.humidity_target]

\* load_preset: returns [ok, temp_target, humidity_target]
load_preset(presets, tt, ht, preset_name) ==
  IF preset_name \notin presets
  THEN [ok |-> FALSE, temp_target |-> tt, humidity_target |-> ht]
  ELSE LET r == set_targets(tt, ht, Presets[preset_name].temp_target,
                            Presets[preset_name].humidity_target)
       IN [ok |-> TRUE, temp_target |-> r.temp_target,
           humidity_target |-> r.humidity_target]

\* Engine time at construction: epoch seconds, far beyond every window, so
\* that spray_last_activated = 0 lies more than the cooldown back.
EngineT0 == 10 * TimeWindow * TicksPerSecond

Setpoints ==
  [temp_target |-> temp_target, temp_min |-> config.temp_min,
   temp_max |-> config.temp_max, humidity_target |-> humidity_target,
   humidity_min |-> config.humidity_min, humidity_max |-> config.humidity_max]

NoObs ==
  [history |-> <<>>, decision |-> NoDecision, temperature |-> 0,
   humidity |-> 0, temp_rate |-> NoRate, humidity_rate |-> NoRate,
   temp_urgency |-> 0, humidity_urgency |-> 0,
   temp_assessment |-> "-", humidity_assessment |-> "-", spray_ok |-> TRUE]

\* HybridControlEngine.__init__
EngineInit(c) ==
  /\ config = c
  /\ clock = EngineT0
  /\ temp_target = c.temp_target
  /\ humidity_target = c.humidity_target
  /\ reading_history = <<>>
  /\ current_mode = "idle"
  /\ last_decision = NoDecision
  /\ last_mode_change = EngineT0
  /\ spray_last_activated = 0
  /\ decisions_made = 0
  /\ mode_durations = [m \in Modes |-> 0]
  /\ advances = 0
  /\ calls = 0
  /\ eop = "init"
  /\ earg = "-"
  /\ eret = TRUE
  /\ obs = NoObs
  /\ epc = "idle"

\* The fields execute_decision works on
Tracking ==
  [current_mode |-> current_mode, last_decision |-> last_decision,
   last_mode_change |-> last_mode_change,
   spray_last_activated |-> spray_last_activated,
   decisions_made |-> decisions_made, mode_durations |-> mode_durations]

Executed(k) ==
  /\ current_mode' = k.current_mode
  /\ last_decision' = k.last_decision
  /\ last_mode_change' = k.last_mode_change
  /\ spray_last_activated' = k.spray_last_activated
  /\ decisions_made' = k.decisions_made
  /\ mode_durations' = k.mode_durations

\* ------------------------------------------------------------ control loop

\* Actuator targets (pump, chiller, dehumidifier) of the decisions
\* make_decision can return: IDLE, EVAPORATIVE, CHILLER / EMERGENCY,
\* DEHUMIDIFY, COOL_AND_DEHUMIDIFY.
Target(p, c, d) == [pump |-> p, chiller |-> c, dehumidifier |-> d]

Decisions ==
  {Target(FALSE, FALSE, FALSE), Target(TRUE, FALSE, FALSE),
   Target(TRUE, TRUE, FALSE), Target(FALSE, FALSE, TRUE),
   Target(FALSE, TRUE, TRUE)}

IsOn(b, n) == b.act[n].state = "ON"

\* Variant: only ON targets are commanded.
ApplyDecisionOnTargetsOnly(b, d, fails, rd) ==
  LET b1 == IF d.pump /\ ~IsOn(b, "pump")
            THEN set_pump(b, TRUE, fails, rd) ELSE b
      b2 == IF d.chiller /\ ~IsOn(b1, "chiller")
            THEN set_chiller(b1, TRUE, fails) ELSE b1
  IN IF d.dehumidifier /\ ~IsOn(b2, "dehumidifier")
     THEN set_dehumidifier(b2, TRUE, fails) ELSE b2

\* _make_control_decision, lines 192-200: command each actuator whose state
\* differs from its target.
ApplyDecision(b, d, fails, rd) ==
  LET b1 == IF d.pump # IsOn(b, "pump")
            THEN set_pump(b, d.pump, fails, rd) ELSE b
      b2 == IF d.chiller # IsOn(b1, "chiller")
            THEN set_chiller(b1, d.chiller, fails) ELSE b1
  IN IF d.dehumidifier # IsOn(b2, "dehumidifier")
     THEN set_dehumidifier(b2, d.dehumidifier, fails) ELSE b2

\* The sensor-timeout test of _control_loop_iteration.
SensorTimedOut ==
  Truthy(last_reading_time) /\ now - last_reading_time > SensorTimeout

Init ==
  /\ now = T0
  /\ act = [n \in Actuators |-> NewActuator]
  /\ gpio = [n \in Actuators |-> FALSE]
  /\ gpio_initialized \in BOOLEAN
  /\ water_level_ok = TRUE
  /\ emergency_mode = FALSE
  /\ waterRead = "-"
  /\ manual_override = FALSE
  /\ changedAt = [n \in Actuators |-> None]
  /\ requests = 0
  /\ writeFailures = 0
  /\ last_reading_time = 0
  /\ pc = "read"
  /\ decision = Target(FALSE, FALSE, FALSE)
  /\ autoCycle = FALSE
  /\ op = "init"
  /\ call = [n \in Actuators |-> NoCall]
  /\ mid = act
  /\ ret = [n \in Actuators |-> "-"]
  /\ all_ok = "-"
  /\ sink = "-"
  /\ running = TRUE
  /\ RaceInit
  /\ EngineInit(SettingsConfig)

\* run(): between two iterations the loop sleeps for the rest of
\* read_interval, so the clock advances at least once per iteration; an
\* iteration itself takes well under one unit of the clock.
Tick ==
  /\ pc = "sleep"
  /\ now < MaxTime
  /\ now' = now + 1
  /\ pc' = "read"
  /\ decision' = Target(FALSE, FALSE, FALSE)
  /\ autoCycle' = FALSE
  /\ op' = "tick"
  /\ all_ok' = "-"
  /\ NoHandler
  /\ UNCHANGED <<gpio_initialized, manual_override,
                 last_reading_time, requests>>
  /\ UNCHANGED <<evars, xvars>>

\* Variant: a failed read is replaced by the last reading in the history.
ReadSensorsFailInvents ==
  /\ pc = "read"
  /\ reading_history # <<>>
  /\ LET last == reading_history[Len(reading_history)]
         r == make_decision(Setpoints, reading_history,
                            spray_last_activated, last.temperature,
                            last.humidity, clock)
     IN /\ reading_history' = r.history
        /\ obs' = r
        /\ Executed(execute_decision(Tracking, r.decision, clock))
        /\ Commit(Bank)
  /\ pc' = "sleep"
  /\ op' = "read_fail"
  /\ all_ok' = "-"
  /\ UNCHANGED <<now, gpio_initialized, manual_override,
                 last_reading_time, decision, autoCycle, requests>>
  /\ UNCHANGED <<config, temp_target, humidity_target, clock, advances,
                 calls, eop, earg, eret, epc, xvars>>

\* _control_loop_iteration, lines 270-283: the sensor read failed; the
\* iteration is skipped, after an emergency shutdown if the sensor timed out
ReadSensorsFail ==
  /\ pc = "read"
  /\ \E fails \in FailSets :
       IF SensorTimedOut
       THEN Commit(emergency_shutdown(Bank, fails))
       ELSE Commit(Bank)
  /\ pc' = "sleep"
  /\ op' = "read_fail"
  /\ all_ok' = "-"
  /\ UNCHANGED <<now, gpio_initialized, manual_override,
                 last_reading_time, decision, autoCycle, requests>>
  /\ UNCHANGED <<evars, xvars>>

\* _control_loop_iteration, lines 270 and 286: the sensor read succeeded
\* (SHT35Sensor.read sets last_reading_time); _make_control_decision
MakeControlDecision ==
  /\ pc = "read"
  /\ last_reading_time' = now
  /\ \E d \in Decisions, fails \in FailSets, rd \in WaterReads :
       IF manual_override
       THEN Commit(Bank) /\ decision' = decision
       ELSE Commit(ApplyDecision(Bank, d, fails, rd)) /\ decision' = d
  /\ autoCycle' = ~manual_override
  /\ pc' = "safety"
  /\ op' = "decide"
  /\ all_ok' = "-"
  /\ UNCHANGED <<now, gpio_initialized, manual_override, requests>>
  /\ UNCHANGED <<evars, xvars>>

\* _control_loop_iteration, lines 289-292: _perform_safety_checks (the safety
\* sweep); its sensor read and that of _log_status happen at the instant of
\* the iteration's first read and leave last_reading_time as it is
PerformSafetyChecks ==
  /\ pc = "safety"
  /\ \E fails \in FailSets, rd \in WaterReads :
       LET r == check_safety(Bank, fails, rd)
       IN Commit(r.b) /\ all_ok' = Bool(r.ok)
  /\ pc' = "sleep"
  /\ op' = "safety"
  /\ UNCHANGED <<now, gpio_initialized, manual_override,
                 last_reading_time, decision, autoCycle, requests>>
  /\ UNCHANGED <<evars, xvars>>

\* --------------------------------------------------------------- dashboard

\* POST /api/manual_override.  The request carries "enabled" (or not) and at
\* most one actuator key; a request with several keys acts as the same
\* requests one after the other at the same instant.
Enabled == {"absent", "true", "false"}
Keys == {<<"none", FALSE>>} \cup (Actuators \X BOOLEAN)

ManualCommand(b, key, fails, rd) ==
  CASE key[1] = "pump" -> set_pump(b, key[2], fails, rd)
    [] key[1] = "chiller" -> set_chiller(b, key[2], fails)
    [] key[1] = "dehumidifier" -> set_dehumidifier(b, key[2], fails)
    [] OTHER -> b

SetManualOverride ==
  /\ requests < MaxRequests
  /\ requests' = requests + 1
  /\ \E enabled \in Enabled, key \in Keys :
     \E fails \in FailSets \cap SUBSET {key[1]},
        rd \in IF key = <<"pump", TRUE>> THEN WaterReads ELSE {"HIGH"} :
       /\ manual_override' = IF enabled = "absent" THEN manual_override
                             ELSE enabled = "true"
       /\ IF manual_override'
          THEN Commit(ManualCommand(Bank, key, fails, rd))
          ELSE Commit(Bank)
  /\ autoCycle' = FALSE
  /\ op' = "manual"
  /\ all_ok' = "-"
  /\ UNCHANGED <<now, gpio_initialized, last_reading_time, pc,
                 decision>>
  /\ UNCHANGED <<evars, xvars>>

Next ==
  \/ Tick
  \/ ReadSensorsFail
  \/ MakeControlDecision
  \/ PerformSafetyChecks
  \/ SetManualOverride

Spec == Init /\ [][Next]_vars

\* run(), lines 329-343: the loop goes from one step of its iteration to the
\* next and from one iteration to the next without waiting for anything but
\* its sleep; requests to the dashboard may or may not come.
LoopStep == Tick \/ ReadSensorsFail \/ MakeControlDecision \/ PerformSafetyChecks

\* The control loop alone, on real GPIO.
FaultInit == Init /\ gpio_initialized

FaultSpec == FaultInit /\ [][LoopStep]_vars /\ WF_vars(LoopStep)

\* ------------------------------------------------- control engine: methods

\* Inputs: sensor readings on both sides of every threshold of the two
\* configurations, and the clock advances 0.5 s, 1 s, the window and just
\* beyond it.
Temps == {60, 95, 102, 110, 118, 145, 160}
Hums == {840, 852, 860, 875, 880, 920}
Advances ==
  {1, TicksPerSecond, TimeWindow * TicksPerSecond,
   TimeWindow * TicksPerSecond + 1}
PresetNames == DOMAIN Presets \cup {"nonexistent"}
\* set_targets arguments: app.py passes the operator's two numbers, 22 and 50
\* when the request has none
NewTempTargets == {None, 110, 220}
NewHumidityTargets == {None, 875, 500}

EngineIdle == UNCHANGED <<avars, xvars>>

AdvanceClock ==
  /\ advances < MaxAdvances
  /\ advances' = advances + 1
  /\ \E d \in Advances : clock' = clock + d
  /\ eop' = "advance"
  /\ earg' = "-"
  /\ eret' = TRUE
  /\ UNCHANGED <<engine, calls, obs, epc>>
  /\ EngineIdle

\* make_decision followed by execute_decision, as every caller does
\* (main.py 173-203, app.py 60-61).  The engine has no lock and the
\* dashboard thread reads it (get_statistics, dashboard.py 90 and 176), so
\* on a mode change the state between the two halves of execute_decision
\* is a state of its own: the control cycle stands at epc = "mode_change"
\* until FinishExecute.
MakeDecision ==
  /\ epc = "idle"
  /\ calls < MaxCalls
  /\ calls' = calls + 1
  /\ \E temperature \in Temps, humidity \in Hums :
       LET r == make_decision(Setpoints, reading_history,
                              spray_last_activated, temperature, humidity,
                              clock)
           d == r.decision
       IN /\ reading_history' = r.history
          /\ obs' = r
          /\ IF current_mode # d.mode
             THEN /\ Executed(close_mode_interval(Tracking, clock))
                  /\ epc' = "mode_change"
                  /\ eop' = "execute"
             ELSE /\ Executed(execute_decision(Tracking, d, clock))
                  /\ epc' = "idle"
                  /\ eop' = "decide"
  /\ earg' = "-"
  /\ eret' = TRUE
  /\ UNCHANGED <<config, temp_target, humidity_target, clock, advances>>
  /\ EngineIdle

\* The rest of execute_decision after a mode change; the clock it reads is
\* the clock of this step.
FinishExecute ==
  /\ epc = "mode_change"
  /\ Executed(track_decision(Tracking, obs.decision, clock, TRUE))
  /\ epc' = "idle"
  /\ eop' = "decide"
  /\ earg' = "-"
  /\ eret' = TRUE
  /\ UNCHANGED <<config, temp_target, humidity_target, reading_history,
                 clock, advances, calls, obs>>
  /\ EngineIdle

SetTargets ==
  /\ epc = "idle"
  /\ calls < MaxCalls
  /\ calls' = calls + 1
  /\ \E new_tt \in NewTempTargets, new_ht \in NewHumidityTargets :
       LET r == set_targets(temp_target, humidity_target, new_tt, new_ht)
       IN /\ temp_target' = r.temp_target
          /\ humidity_target' = r.humidity_target
  /\ eop' = "set_targets"
  /\ earg' = "-"
  /\ eret' = TRUE
  /\ UNCHANGED <<config, reading_history, current_mode, last_decision,
                 last_mode_change, spray_last_activated, decisions_made,
                 mode_durations, clock, advances, obs, epc>>
  /\ EngineIdle

LoadPreset ==
  /\ epc = "idle"
  /\ calls < MaxCalls
  /\ calls' = calls + 1
  /\ \E preset_name \in PresetNames :
       LET r == load_preset(config.presets, temp_target, humidity_target,
                            preset_name)
       IN /\ temp_target' = r.temp_target
          /\ humidity_target' = r.humidity_target
          /\ earg' = preset_name
          /\ eret' = r.ok
  /\ eop' = "load_preset"
  /\ UNCHANGED <<config, reading_history, current_mode, last_decision,
                 last_mode_change, spray_last_activated, decisions_made,
                 mode_durations, clock, advances, obs, epc>>
  /\ EngineIdle

\* get_statistics: the duration reported per mode, and total_time
StatDuration(m) ==
  IF m = current_mode
  THEN mode_durations[m] + (clock - last_mode_change)
  ELSE mode_durations[m]

RECURSIVE SumOver(_, _)
SumOver(f, S) ==
  IF S = {} THEN 0
  ELSE LET x == CHOOSE y \in S : TRUE IN f[x] + SumOver(f, S \ {x})

StatTotalTime == SumOver(mode_durations, Modes) + (clock - last_mode_change)

EngineInitial ==
  /\ \E c \in {SettingsConfig, DefaultConfig} : EngineInit(c)
  /\ now = T0
  /\ act = [n \in Actuators |-> NewActuator]
  /\ gpio = [n \in Actuators |-> FALSE]
  /\ gpio_initialized = FALSE
  /\ water_level_ok = TRUE
  /\ emergency_mode = FALSE
  /\ waterRead = "-"
  /\ manual_override = FALSE
  /\ changedAt = [n \in Actuators |-> None]
  /\ requests = 0
  /\ writeFailures = 0
  /\ last_reading_time = 0
  /\ pc = "read"
  /\ decision = Target(FALSE, FALSE, FALSE)
  /\ autoCycle = FALSE
  /\ op = "init"
  /\ call = [n \in Actuators |-> NoCall]
  /\ mid = act
  /\ ret = [n \in Actuators |-> "-"]
  /\ all_ok = "-"
  /\ sink = "-"
  /\ running = TRUE
  /\ RaceInit

EngineNext ==
  \/ AdvanceClock
  \/ MakeDecision
  \/ FinishExecute
  \/ SetTargets
  \/ LoadPreset

EngineSpec == EngineInitial /\ [][EngineNext]_vars

\* ------------------------------------- control engine: one method per step
\* The engine's public methods called one at a time, in any order, as its
\* interface allows: add_reading, make_decision and execute_decision are
\* separate steps here.

\* Readings (temperature, humidity) that lead the shipped configuration to
\* IDLE, CHILLER, DEHUMIDIFY and EMERGENCY.
ApiReadings == {<<110, 875>>, <<145, 875>>, <<110, 920>>, <<160, 840>>}

\* add_reading(temperature, humidity), lines 116-127
AddReading ==
  /\ epc = "idle"
  /\ calls < MaxCalls
  /\ calls' = calls + 1
  /\ \E reading \in ApiReadings :
       reading_history' = add_reading(reading_history, reading[1],
                                      reading[2], clock)
  /\ eop' = "add_reading"
  /\ earg' = "-"
  /\ eret' = TRUE
  /\ UNCHANGED <<config, temp_target, humidity_target, current_mode,
                 last_decision, last_mode_change, spray_last_activated,
                 decisions_made, mode_durations, clock, advances, obs, epc>>
  /\ EngineIdle

\* make_decision(temperature, humidity), lines 278-420: appends the reading
\* and returns the decision; it assigns no other field of the engine.
Decide ==
  /\ epc = "idle"
  /\ calls < MaxCalls
  /\ calls' = calls + 1
  /\ \E reading \in ApiReadings :
       LET r == make_decision(Setpoints, reading_history,
                              spray_last_activated, reading[1], reading[2],
                              clock)
       IN /\ reading_history' = r.history
          /\ obs' = r
  /\ eop' = "make_decision"
  /\ earg' = "-"
  /\ eret' = TRUE
  /\ UNCHANGED <<config, temp_target, humidity_target, current_mode,
                 last_decision, last_mode_change, spray_last_activated,
                 decisions_made, mode_durations, clock, advances, epc>>
  /\ EngineIdle

\* execute_decision(decision), lines 422-443, with the decision the last
\* make_decision returned
Execute ==
  /\ epc = "idle"
  /\ obs.decision # NoDecision
  /\ decisions_made < MaxCalls
  /\ Executed(execute_decision(Tracking, obs.decision, clock))
  /\ eop' = "execute_decision"
  /\ earg' = "-"
  /\ eret' = TRUE
  /\ UNCHANGED <<config, temp_target, humidity_target, reading_history,
                 clock, advances, calls, obs, epc>>
  /\ EngineIdle

\* get_statistics(), lines 483-511: reads only
GetStatistics ==
  /\ epc = "idle"
  /\ eop # "get_statistics"
  /\ eop' = "get_statistics"
  /\ earg' = "-"
  /\ eret' = TRUE
  /\ UNCHANGED <<engine, clock, advances, calls, obs, epc>>
  /\ EngineIdle

ApiNext ==
  \/ AdvanceClock
  \/ AddReading
  \/ Decide
  \/ Execute
  \/ SetTargets
  \/ LoadPreset
  \/ GetStatistics

ApiSpec == EngineInitial /\ [][ApiNext]_vars

\* ------------------------------------------- control loop with the engine
\* The control loop of main.py with the engine it drives: the decision
\* applied to the actuators is the one make_decision computes from the
\* sensor reading.  One sleep is one read interval on both clocks.
ReadInterval == 2

\* Sensor readings (temperature, humidity): at the targets (IDLE) and
\* critically warm (CHILLER, pump and chiller) with the shipped setpoints.
Readings == {<<110, 875>>, <<145, 875>>}

\* What the database write can do.
SinkOutcomes == {"ok", "sqlite3.Error"}

\* Variant: the logger lets the database error through.
log_control_decision_uncaught(outcome) == outcome # "ok"

\* DataLogger.log_control_decision: TRUE iff the call raises.  The write is
\* inside try / except sqlite3.Error.
log_control_decision(outcome) == outcome \notin {"ok", "sqlite3.Error"}

\* Variant: the override flag is not consulted.
manual_override_ignored(flag) == FALSE

\* _make_control_decision line 187: self.dashboard and
\* self.dashboard.manual_override (the flag exists only with a dashboard)
manual_override_active(flag) == flag

\* run(): sleep for the rest of the read interval
Sleep ==
  /\ pc = "sleep"
  /\ now < MaxTime
  /\ now' = now + 1
  /\ clock' = clock + ReadInterval * TicksPerSecond
  /\ pc' = "read"
  /\ decision' = Target(FALSE, FALSE, FALSE)
  /\ autoCycle' = FALSE
  /\ op' = "tick"
  /\ all_ok' = "-"
  /\ sink' = "-"
  /\ UNCHANGED <<rvars, running>>
  /\ NoHandler
  /\ UNCHANGED <<gpio_initialized, manual_override,
                 last_reading_time, requests>>
  /\ UNCHANGED <<engine, advances, calls, eop, earg, eret, obs, epc>>

\* _control_loop_iteration, lines 270 and 286: the sensor read succeeded;
\* _make_control_decision with the engine.  An exception out of the logger
\* ends the method in its except clause, before the actuators and
\* execute_decision.
_make_control_decision ==
  /\ pc = "read"
  /\ last_reading_time' = now
  /\ \E reading \in Readings, outcome \in SinkOutcomes,
        fails \in FailSets, rd \in WaterReads :
       LET r == make_decision(Setpoints, reading_history,
                              spray_last_activated, reading[1], reading[2],
                              clock)
           d == r.decision
           target == Target(d.pump, d.chiller, d.dehumidifier)
       IN /\ reading_history' = r.history
          /\ obs' = r
          /\ sink' = outcome
          /\ UNCHANGED <<rvars, running>>
          /\ IF log_control_decision(outcome)
             THEN /\ Commit(Bank)
                  /\ decision' = decision
                  /\ autoCycle' = FALSE
                  /\ UNCHANGED <<current_mode, last_decision,
                                 last_mode_change, spray_last_activated,
                                 decisions_made, mode_durations>>
             ELSE /\ IF manual_override_active(manual_override)
                     THEN /\ Commit(Bank)
                          /\ decision' = decision
                          /\ autoCycle' = FALSE
                     ELSE /\ Commit(ApplyDecision(Bank, target, fails, rd))
                          /\ decision' = target
                          /\ autoCycle' = TRUE
                  /\ Executed(execute_decision(Tracking, d, clock))
  /\ pc' = "safety"
  /\ op' = "decide"
  /\ all_ok' = "-"
  /\ UNCHANGED <<now, gpio_initialized, manual_override, requests>>
  /\ UNCHANGED <<config, temp_target, humidity_target, clock, advances,
                 calls, eop, earg, eret, epc>>

LoopNext ==
  \/ Sleep
  \/ ReadSensorsFail
  \/ _make_control_decision
  \/ PerformSafetyChecks
  \/ SetManualOverride

LoopSpec == Init /\ [][LoopNext]_vars

\* --------------------------------------------------- the two threads' runs
RaceNext ==
  \/ \E t \in Threads : StartCommand(t)
  \/ \E t \in Threads : TurnOnStep(t)
  \/ \E t \in Threads : TurnOffStep(t)
  \/ RaceTick

RaceSpec == EngineInitial /\ [][RaceNext]_vars

\* ------------------------------------------------- shutdown of the process
\* signal.signal(SIGINT / SIGTERM, _signal_handler), main.py 67-68 and
\* 136-139: the handler runs stop() in the main thread, between two
\* instructions of whatever the control loop is executing, and then that
\* code resumes; the loop ends at its next `while self.running` test, and the
\* stop() of run()'s finally clause then returns at once.

\* DataLogger.log_event: TRUE iff the call raises.  The database write is
\* wrapped in `except sqlite3.Error`.
log_event(outcome) == outcome \notin {"ok", "sqlite3.Error"}

\* ActuatorController.cleanup: emergency_stop on every actuator and, with
\* real GPIO, the output write; emergency_mode stays as it is.
cleanup(b, fails) ==
  EStop(EStop(EStop(b, "pump", fails), "chiller", fails),
        "dehumidifier", fails)

\* The body of ClimateControlSystem.stop once it has found running true:
\* the logger call and cleanup are in one try block, in this order.
StopBody ==
  /\ running' = FALSE
  /\ \E outcome \in SinkOutcomes, fails \in FailSets :
       /\ sink' = outcome
       /\ IF log_event(outcome) THEN Commit(Bank)
          ELSE Commit(cleanup(Bank, fails))
  /\ autoCycle' = FALSE
  /\ all_ok' = "-"
  /\ UNCHANGED <<now, gpio_initialized, manual_override, last_reading_time,
                 decision, requests>>
  /\ UNCHANGED <<evars, rvars>>

\* A shutdown signal arrives while the loop runs.
stop ==
  /\ running
  /\ pc # "exited"
  /\ StopBody
  /\ op' = "stop"
  /\ UNCHANGED pc

\* run(), lines 329-343: the loop has slept and finds running true.
NextIteration == running /\ Tick

\* run(), lines 329 and 350-351: the loop finds running false and leaves;
\* the stop() of the finally clause returns at its first test.
Exit ==
  /\ pc = "sleep"
  /\ ~running
  /\ pc' = "exited"
  /\ op' = "exit"
  /\ all_ok' = "-"
  /\ NoHandler
  /\ UNCHANGED <<now, gpio_initialized, manual_override, last_reading_time,
                 decision, requests, autoCycle>>
  /\ UNCHANGED <<evars, xvars>>

\* run(), lines 345-351: an exception leaves the iteration; the except
\* clause logs it and the finally clause calls stop().
FatalError ==
  /\ running
  /\ pc \in {"read", "safety"}
  /\ StopBody
  /\ op' = "fatal"
  /\ pc' = "exited"

\* The main thread alone: the control loop, the signal handler and the exit.
StopNext ==
  \/ NextIteration
  \/ ReadSensorsFail
  \/ MakeControlDecision
  \/ PerformSafetyChecks
  \/ stop
  \/ Exit
  \/ FatalError

StopSpec == Init /\ [][StopNext]_vars

\* ==================================================================== claims

On(a) == a.state = "ON"

\* --------------------------------------------------------------------- C1
\* C1: a TurnOn on an actuator that is not ON returns false and changes no
\* field of the actuator (nor its output) while now - lastStateChangeAt <
\* minCycleTime, and succeeds (state ON, runtime clock and lastStateChangeAt
\* set to now, cycleCount + 1) once now - lastStateChangeAt >= minCycleTime.
C1_TurnOnCycleGate ==
  [][\A n \in Actuators :
       (call'[n].cmd = "turn_on" /\ ~On(act[n])) =>
         IF now - act[n].last_state_change < MinCycleTime
         THEN /\ ~call'[n].ok
              /\ mid'[n] = act[n]
              /\ act'[n] = act[n]
              /\ gpio'[n] = gpio[n]
         ELSE /\ call'[n].ok
              /\ mid'[n] = [act[n] EXCEPT !.state = "ON",
                                          !.last_state_change = now,
                                          !.runtime_start = now,
                                          !.cycle_count = @ + 1]]_vars

\* One handler in which a TurnOn shortly after that actuator's TurnOff is
\* refused and a TurnOn of another actuator, at least minCycleTime after its
\* TurnOff, succeeds.
C1_Witness ==
  \E n, m \in Actuators :
    /\ call[n].cmd = "turn_on" /\ ~call[n].ok
    /\ act[n].state = "OFF" /\ act[n].cycle_count > 0
    /\ now - act[n].last_state_change < MinCycleTime
    /\ call[m].cmd = "turn_on" /\ call[m].ok
    /\ act[m].state = "ON" /\ act[m].cycle_count = 2

\* --------------------------------------------------------------------- C2
\* C2: a SetPump(true) whose fresh water-level read reports low returns
\* false without calling the pump's TurnOn and leaves the pump's fields and
\* its output unchanged; in no step whose water-level read reports low does
\* the pump go from not ON to ON.
C2_PumpWaterGate ==
  [][waterRead' = "LOW" =>
       /\ ~On(act["pump"]) => ~On(act'["pump"])
       /\ op' \in {"decide", "manual"} =>
            /\ ret'["pump"] = "F"
            /\ call'["pump"].cmd = "-"
            /\ act'["pump"] = act["pump"]
            /\ gpio'["pump"] = gpio["pump"]]_vars

\* The pump was commanded ON with the cycle-time gate open and was refused
\* because the water level read low.
C2_Witness ==
  /\ op \in {"decide", "manual"}
  /\ waterRead = "LOW"
  /\ ret["pump"] = "F"
  /\ act["pump"].state = "OFF"
  /\ now - act["pump"].last_state_change >= MinCycleTime

\* --------------------------------------------------------------------- C3
\* C3: when the safety sweep returns, no actuator is ON with now -
\* runtimeStartedAt >= maxRuntime, the pump is not ON if the sweep's
\* water-level read reported low, and every actuator the sweep forced off
\* went through TurnOff: its run was added to totalRuntime, its runtime
\* clock cleared and lastStateChangeAt set to now.
C3_SafetySweep ==
  [][op' = "safety" =>
       /\ \A n \in Actuators :
            /\ On(act'[n]) => now' - act'[n].runtime_start < max_runtime(n)
            /\ (On(act[n]) /\ ~On(act'[n])) =>
                 /\ call'[n].cmd = "turn_off"
                 /\ act'[n].total_runtime =
                      act[n].total_runtime + (now - act[n].runtime_start)
                 /\ act'[n].runtime_start = None
                 /\ act'[n].last_state_change = now'
       /\ waterRead' = "LOW" => ~On(act'["pump"])]_vars

\* The sweep forced off an actuator that had reached its runtime cap.
C3_Witness ==
  /\ op = "safety"
  /\ \E n \in Actuators :
       /\ call[n].cmd = "turn_off"
       /\ act[n].state = "OFF"
       /\ act[n].cycle_count = 1
       /\ act[n].total_runtime >= max_runtime(n)
       /\ act[n].last_state_change = now

\* --------------------------------------------------------------------- C4
\* C4: every control-loop iteration runs the safety sweep, whether or not
\* the sensor read succeeded, so an actuator that entered the iteration ON
\* with its runtime cap reached is not ON when the iteration ends, and the
\* pump is not ON after an iteration whose water-level read reported low.
\* (An iteration ends with the safety step or, on a failed sensor read,
\* with the read step.)
C4_SweepEveryIteration ==
  [][op' \in {"safety", "read_fail"} =>
       /\ \A n \in Actuators :
            (On(act[n]) /\ now - act[n].runtime_start >= max_runtime(n))
              => ~On(act'[n])
       /\ waterRead' = "LOW" => ~On(act'["pump"])]_vars

\* --------------------------------------------------------------------- C5
EmergencyShutdownDone ==
  op = "read_fail" /\ \A n \in Actuators : call[n].cmd = "emergency_stop"

C6_TurnOffAlwaysSucceeds ==
  [][\A n \in Actuators :
       (call'[n].cmd = "turn_off" /\ On(act[n])) =>
         /\ call'[n].ok
         /\ mid'[n] = [act[n] EXCEPT
                         !.state = "OFF",
                         !.runtime_start = None,
                         !.last_state_change = now,
                         !.total_runtime = @ + (now - act[n].runtime_start)]]_vars

\* A TurnOff that succeeded less than minCycleTime after the TurnOn.
C6_Witness ==
  \E n \in Actuators :
    /\ call[n].cmd = "turn_off" /\ call[n].ok
    /\ act[n].state = "OFF"
    /\ act[n].cycle_count = 1
    /\ act[n].total_runtime > 0
    /\ act[n].total_runtime < MinCycleTime
    /\ act[n].last_state_change = now

\* --------------------------------------------------------------------- C7
\* C7: at the end of a control cycle that ran without manual override, every
\* actuator that is ON was targeted ON by that cycle's Decision.
C7_OffTargetHonoured ==
  autoCycle => \A n \in Actuators : On(act[n]) => decision[n]

\* A cycle whose Decision targeted OFF an actuator turned on less than
\* minCycleTime before, and turned it off.
C7_Witness ==
  /\ autoCycle
  /\ op = "decide"
  /\ \E n \in Actuators :
       /\ ~decision[n]
       /\ call[n].cmd = "turn_off"
       /\ act[n].state = "OFF"
       /\ act[n].cycle_count = 1
       /\ act[n].total_runtime < MinCycleTime

\* --------------------------------------------------------------------- C8
\* C8: in every reachable state an actuator's runtimeStartedAt is non-null
\* exactly when its state is ON.
C8_RuntimeClockIffOn ==
  \A n \in Actuators : (act[n].runtime_start # None) <=> On(act[n])

\* --------------------------------------------------------------------- C9
Flipped(n) ==
  \/ On(act[n]) # On(mid'[n])
  \/ On(mid'[n]) # On(act'[n])

\* C9: any two consecutive state changes of one actuator (OFF to ON or ON to
\* OFF) are at least minCycleTime apart.
C9_ChangesMinCycleApart ==
  [][\A n \in Actuators :
       (Flipped(n) /\ changedAt[n] # None)
         => now - changedAt[n] >= MinCycleTime]_vars

\* -------------------------------------------------------------------- C10
\* C10: an actuator in FAULT stays in FAULT: no TurnOn, TurnOff,
\* EmergencyStop, safety sweep or automatic decision moves it out.
C10_FaultTerminal ==
  [][\A n \in Actuators :
       act[n].state = "FAULT" => act'[n].state = "FAULT"]_vars

\* ----------------------------------------------------- control engine claims

\* The state right after a make_decision + execute_decision
Decided == eop = "decide"

ShippedSetpoints ==
  /\ config = SettingsConfig
  /\ temp_target = 110
  /\ humidity_target = 875

\* -------------------------------------------------------------------- C11
\* C11: whenever temp > emergencyShutdownTemp, Decide returns mode EMERGENCY
\* with pump = chiller = true, dehumidifier = false and priority 10, whatever
\* the humidity, the history, the setpoints and the spray timer.
C11_EmergencyFirst ==
  (Decided /\ obs.temperature > 150) =>
    /\ last_decision.mode = "emergency"
    /\ last_decision.pump /\ last_decision.chiller
    /\ ~last_decision.dehumidifier
    /\ last_decision.priority = 10

\* An emergency decision taken at high humidity, with a known rate of change
\* and the spray cooldown not elapsed.
C11_Witness ==
  /\ Decided
  /\ obs.temperature > 150
  /\ obs.humidity > config.humidity_max
  /\ obs.temp_rate.known
  /\ ~obs.spray_ok
  /\ last_decision.mode = "emergency"

\* -------------------------------------------------------------------- C12
\* The conditions of the rules after Emergency, on what Decide computed them
\* from: the two urgencies, the humidity, the temperature rate and the spray
\* cooldown.
CriticalHeat == obs.temp_urgency >= 8
CriticalHumidity == obs.humidity_urgency >= 7
ModerateHeat ==
  /\ obs.temp_urgency >= 4
  /\ obs.humidity < config.humidity_max - 50
  /\ obs.spray_ok
DualDrift == obs.temp_urgency >= 3 /\ obs.humidity_urgency >= 3
Predictive ==
  /\ obs.temp_rate.known
  /\ obs.temp_rate.num > 5 * obs.temp_rate.den
  /\ obs.humidity < config.humidity_max - 30
MaxUrgency ==
  IF obs.temp_urgency >= obs.humidity_urgency
  THEN obs.temp_urgency ELSE obs.humidity_urgency

\* C12: Decide returns the decision of the first rule whose condition holds,
\* in the order Emergency, Critical heat, Critical humidity, Moderate heat,
\* Dual moderate drift, Predictive pre-emption, Default, with that rule's
\* mode, actuator targets and priority; the priority lies in 0..10.
C12_FirstMatchWins ==
  Decided =>
    /\ last_decision.priority \in 0..10
    /\ last_decision =
         IF obs.temperature > 150
         THEN ControlDecision("emergency", TRUE, TRUE, FALSE, 10)
         ELSE IF CriticalHeat
         THEN IF obs.humidity < config.humidity_max
              THEN ControlDecision("chiller", TRUE, TRUE, FALSE,
                                   obs.temp_urgency)
              ELSE ControlDecision("cool_and_dehumidify", FALSE, TRUE, TRUE,
                                   MaxUrgency)
         ELSE IF CriticalHumidity
         THEN IF obs.temp_urgency > 3
              THEN ControlDecision("cool_and_dehumidify", FALSE, TRUE, TRUE,
                                   MaxUrgency)
              ELSE ControlDecision("dehumidify", FALSE, FALSE, TRUE,
                                   obs.humidity_urgency)
         ELSE IF ModerateHeat
         THEN ControlDecision("evaporative", TRUE, FALSE, FALSE,
                              obs.temp_urgency)
         ELSE IF DualDrift
         THEN ControlDecision("chiller", TRUE, TRUE, FALSE, MaxUrgency)
         ELSE IF Predictive
         THEN ControlDecision("evaporative", TRUE, FALSE, FALSE, 5)
         ELSE ControlDecision("idle", FALSE, FALSE, FALSE, 0)

\* The conditions of Moderate heat and of Dual moderate drift both hold and
\* the decision is that of Moderate heat.
C12_Witness ==
  /\ Decided
  /\ obs.temperature <= 150
  /\ ~CriticalHeat /\ ~CriticalHumidity
  /\ ModerateHeat /\ DualDrift
  /\ last_decision.mode = "evaporative"

\* -------------------------------------------------------------------- C13
AtTargets == obs.temperature = 110 /\ obs.humidity = 875

IdleDecision ==
  last_decision = ControlDecision("idle", FALSE, FALSE, FALSE, 0)

\* |rate| beyond the warning threshold (0.5 C/min, 2 %/min)
TempRateBeyondWarning ==
  /\ obs.temp_rate.known
  /\ \/ obs.temp_rate.num > 5 * obs.temp_rate.den
     \/ obs.temp_rate.num < -5 * obs.temp_rate.den
HumidityRateBeyondWarning ==
  /\ obs.humidity_rate.known
  /\ \/ obs.humidity_rate.num > 20 * obs.humidity_rate.den
     \/ obs.humidity_rate.num < -20 * obs.humidity_rate.den

C14_EvaporativeExample ==
  (/\ Decided /\ ShippedSetpoints
   /\ obs.temperature = 95 /\ obs.humidity = 880
   /\ obs.spray_ok)
    => /\ last_decision.mode = "evaporative"
       /\ last_decision.pump
       /\ ~last_decision.chiller /\ ~last_decision.dehumidifier

\* -------------------------------------------------------------------- C15
\* C15: whenever temp <= emergencyShutdownTemp, tempUrgency >= 8 and
\* humidity >= humidityMax, Decide returns COOL_AND_DEHUMIDIFY with chiller =
\* dehumidifier = true, pump = false and priority = max(tempUrgency,
\* humidityUrgency); temp = 14.5, humidity = 92 with the shipped setpoints is
\* such a case.
C15_CoolAndDehumidify ==
  /\ (/\ Decided
      /\ obs.temperature <= 150
      /\ obs.temp_urgency >= 8
      /\ obs.humidity >= config.humidity_max)
       => last_decision =
            ControlDecision("cool_and_dehumidify", FALSE, TRUE, TRUE,
                            MaxUrgency)
  /\ (/\ Decided /\ ShippedSetpoints
      /\ obs.temperature = 145 /\ obs.humidity = 920)
       => /\ obs.temp_urgency = 10
          /\ last_decision.mode = "cool_and_dehumidify"
          /\ last_decision.priority = 10

\* The decision for temp = 14.5, humidity = 92 with the shipped setpoints.
C15_Witness ==
  /\ Decided /\ ShippedSetpoints
  /\ obs.temperature = 145 /\ obs.humidity = 920
  /\ last_decision.mode = "cool_and_dehumidify"

\* -------------------------------------------------------------------- C16
\* |value - target| <= hysteresis (0.5 C, 2 %)
InTempBand ==
  /\ obs.temperature - temp_target <= 5
  /\ temp_target - obs.temperature <= 5
InHumidityBand ==
  /\ obs.humidity - humidity_target <= 20
  /\ humidity_target - obs.humidity <= 20

\* value + rate * 5 minutes against a limit, for a rate num/den with den > 0
ExtrapolatedAbove(value, rate, limit) ==
  value * rate.den + 5 * rate.num > limit * rate.den
ExtrapolatedBelow(value, rate, limit) ==
  value * rate.den + 5 * rate.num < limit * rate.den

DecidedAt == obs.history[Len(obs.history)].timestamp

InWindow ==
  {i \in 1..Len(obs.history) :
     DecidedAt - obs.history[i].timestamp <= 60 * TicksPerSecond}

\* at least 2 in-window samples, spanning at least 1 second
EnoughSamples ==
  /\ Cardinality(InWindow) >= 2
  /\ \E i, j \in InWindow :
       obs.history[j].timestamp - obs.history[i].timestamp >= TicksPerSecond

\* C17: RateOfChange returns unknown (None), never a number, whenever fewer
\* than 2 samples lie within the window or the in-window samples span less
\* than 1 second; it returns a number only with >= 2 in-window samples
\* spanning >= 1 second.
C17_RateKnownIffEnoughSamples ==
  Decided =>
    /\ obs.temp_rate.known <=> EnoughSamples
    /\ obs.humidity_rate.known <=> EnoughSamples

\* Two in-window readings of different value half a second apart: no rate.
C17_Witness ==
  /\ Decided
  /\ Cardinality(InWindow) = 2
  /\ obs.history[2].timestamp - obs.history[1].timestamp = 1
  /\ obs.history[2].temperature # obs.history[1].temperature
  /\ ~obs.temp_rate.known
  /\ ~obs.humidity_rate.known

\* -------------------------------------------------------------------- C18
\* C18: at every sampling point the per-mode duration counters summed over
\* all modes plus the open interval of the current mode (now -
\* lastModeChangeAt) equal the wall-clock time since the engine was
\* constructed, and the per-mode durations reported by Statistics sum to the
\* same total.
C18_AccountingLaw ==
  /\ SumOver(mode_durations, Modes) + (clock - last_mode_change)
       = clock - EngineT0
  /\ SumOver([m \in Modes |-> StatDuration(m)], Modes) = clock - EngineT0

\* -------------------------------------------------------------------- C19
\* C19: LoadPreset with a name that is not among the configured presets
\* returns false and leaves every setpoint and all other engine state
\* unchanged.
C19_UnknownPresetRejected ==
  [][(eop' = "load_preset" /\ earg' \notin config.presets)
       => /\ eret' = FALSE
          /\ temp_target' = temp_target
          /\ humidity_target' = humidity_target
          /\ UNCHANGED <<config, reading_history, current_mode,
                         last_decision, last_mode_change,
                         spray_last_activated, decisions_made,
                         mode_durations>>]_vars

\* An unknown preset name was refused while the setpoints were not the
\* configured ones, and they are still not.
C19_Witness ==
  /\ eop = "load_preset"
  /\ earg = "nonexistent"
  /\ ~eret
  /\ temp_target # config.temp_target
  /\ humidity_target # config.humidity_target

\* -------------------------------------------------------------------- C20
\* C20: SetTargets and LoadPreset reject an invalid setpoint, so
\* tempMin <= tempTarget <= tempMax and humidityMin <= humidityTarget <=
\* humidityMax hold after any sequence of SetTargets and LoadPreset calls.
C20_SetpointsWithinRange ==
  /\ config.temp_min <= temp_target
  /\ temp_target <= config.temp_max
  /\ config.humidity_min <= humidity_target
  /\ humidity_target <= config.humidity_max

\* -------------------------------------------------------------------- C21
\* The sweep switched at least one actuator from ON to not ON.
SweepIntervened == \E n \in Actuators : On(act[n]) /\ ~On(act'[n])

\* C21 (as written): RunSafetySweep returns true if and only if it did not
\* have to intervene: it returns false exactly when it forced at least one
\* actuator OFF.
C21_Original ==
  [][op' = "safety" => (all_ok' = "F" <=> SweepIntervened)]_vars

\* C21 (amended): RunSafetySweep returns false exactly when an actuator had
\* reached its runtime cap (and was forced OFF) or the sweep's water-level
\* check failed (level low, or the level input unreadable), whether or not
\* the pump was ON and had to be switched off; it returns true otherwise.
C21_SweepResult ==
  [][op' = "safety" =>
       (all_ok' = "F" <=>
          \/ \E n \in Actuators :
               On(act[n]) /\ now - act[n].runtime_start >= max_runtime(n)
          \/ waterRead' \in {"LOW", "ERR"})]_vars

\* The sweep found the water low with the pump not running: nothing was
\* switched, and it returned false.
C21_Witness ==
  /\ op = "safety"
  /\ all_ok = "F"
  /\ waterRead = "LOW"
  /\ \A n \in Actuators : call[n].cmd = "-"
  /\ emergency_mode = FALSE

\* -------------------------------------------------------------------- C22
\* C22: EmergencyStop, called in any state (OFF, ON, FAULT) and at any time
\* since the last state change, leaves the actuator with state = OFF and
\* runtimeStartedAt cleared, and leaves totalRuntime (the interrupted run is
\* not accumulated) and cycleCount unchanged.
C22_EmergencyStop ==
  [][\A n \in Actuators :
       call'[n].cmd = "emergency_stop" =>
         /\ mid'[n].state = "OFF"
         /\ mid'[n].runtime_start = None
         /\ mid'[n].total_runtime = act[n].total_runtime
         /\ mid'[n].cycle_count = act[n].cycle_count]_vars

\* An emergency stop interrupted a run of positive length, less than
\* minCycleTime after the actuator was turned on; the run is not in
\* totalRuntime.
C22_Witness ==
  \E n \in Actuators :
    /\ call[n].cmd = "emergency_stop"
    /\ mid[n].state = "OFF"
    /\ changedAt[n] = now
    /\ mid[n].cycle_count = 1
    /\ mid[n].total_runtime = 0
    /\ now - mid[n].last_state_change > 0
    /\ now - mid[n].last_state_change < MinCycleTime

\* -------------------------------------------------------------------- C23
\* C23: in a control cycle whose sensor read fails no value is invented:
\* Decide and Execute are not called, the engine's history, current mode,
\* decision counter and spray timer are unchanged, and no actuator command
\* is issued other than EmergencyShutdown on sensor timeout.
C23_FailedReadSkipsCycle ==
  [][op' = "read_fail" =>
       /\ reading_history' = reading_history
       /\ current_mode' = current_mode
       /\ decisions_made' = decisions_made
       /\ spray_last_activated' = spray_last_activated
       /\ last_decision' = last_decision
       /\ mode_durations' = mode_durations
       /\ \A n \in Actuators : call'[n].cmd \in {"-", "emergency_stop"}
       /\ (\E n \in Actuators : call'[n].cmd = "emergency_stop") =>
            /\ last_reading_time # 0
            /\ now - last_reading_time > SensorTimeout]_vars

\* A failed read after a decision that left the chiller running: the cycle
\* issued no command and the engine still holds that one decision.
C23_Witness ==
  /\ op = "read_fail"
  /\ decisions_made = 1
  /\ Len(reading_history) = 1
  /\ current_mode = "chiller"
  /\ On(act["chiller"])
  /\ \A n \in Actuators : call[n].cmd = "-"

\* -------------------------------------------------------------------- C24
\* Since when the sensor has delivered no reading: since its last reading
\* or, without any, since the system started.
LastDelivered == IF last_reading_time = 0 THEN T0 ELSE last_reading_time

\* C24: whenever the sensor has delivered no reading for longer than the
\* sensor-timeout budget, the next control cycle invokes EmergencyShutdown:
\* afterwards no actuator is ON and emergencyMode is true.
C24_TimeoutShutsDown ==
  [][(op' = "read_fail" /\ now - LastDelivered > SensorTimeout) =>
       /\ emergency_mode'
       /\ \A n \in Actuators : ~On(act'[n])]_vars

\* -------------------------------------------------------------------- C25
\* What the cycle's decision asks of actuator n.
Wanted(n) ==
  CASE n = "pump" -> obs'.decision.pump
    [] n = "chiller" -> obs'.decision.chiller
    [] OTHER -> obs'.decision.dehumidifier

\* C25: a failure of the event/metric sink during a cycle never blocks or
\* aborts that cycle: the cycle's Decision is still applied to the actuators
\* (every actuator whose state differs from its target is commanded) and
\* recorded by Execute, and the safety sweep still runs.
C25_SinkFailureHarmless ==
  [][(op' = "decide" /\ sink' = "sqlite3.Error") =>
       /\ decisions_made' = decisions_made + 1
       /\ last_decision' = obs'.decision
       /\ current_mode' = obs'.decision.mode
       /\ ~manual_override =>
            \A n \in Actuators :
              (Wanted(n) # On(act[n])) =>
                ret'[n] # "-" /\ (ret'[n] = "T" => call'[n].ok)
       /\ pc' = "safety"]_vars

\* The database write failed in a cycle that started the chiller and the
\* pump; the decision is recorded and the sweep is next.
C25_Witness ==
  /\ op = "decide"
  /\ sink = "sqlite3.Error"
  /\ decisions_made = 1
  /\ current_mode = "chiller"
  /\ call["chiller"].cmd = "turn_on"
  /\ On(act["chiller"]) /\ On(act["pump"])
  /\ pc = "safety"

\* -------------------------------------------------------------------- C26
\* C26: in every cycle that starts with manual override enabled the
\* automatic Decision is still computed and passed to Execute (decision
\* counter, current mode and per-mode accounting advance), but no actuator
\* command derived from that Decision is issued: the cycle's decision step
\* leaves every actuator and output as it was.  (The cycles meant are those
\* whose sensor read succeeds; a failed read skips the cycle.)
C26_OverrideTracksOnly ==
  [][(op' = "decide" /\ manual_override) =>
       /\ decisions_made' = decisions_made + 1
       /\ last_decision' = obs'.decision
       /\ current_mode' = obs'.decision.mode
       /\ IF obs'.decision.mode # current_mode
          THEN /\ mode_durations' =
                    [mode_durations EXCEPT
                       ![current_mode] = @ + (clock - last_mode_change)]
               /\ last_mode_change' = clock
          ELSE UNCHANGED <<mode_durations, last_mode_change>>
       /\ \A n \in Actuators : call'[n].cmd = "-" /\ ret'[n] = "-"
       /\ act' = act
       /\ gpio' = gpio]_vars

\* Under manual override the engine decided for the chiller, one read
\* interval after start-up, and the actuators stayed as the operator left
\* them: the pump running, the chiller off.
C26_Witness ==
  /\ op = "decide"
  /\ manual_override
  /\ current_mode = "chiller"
  /\ mode_durations["idle"] > 0
  /\ decisions_made >= 1
  /\ On(act["pump"])
  /\ ~On(act["chiller"])
  /\ \A n \in Actuators : call[n].cmd = "-"

\* -------------------------------------------------------------------- C27
\* cycleCount counts activations: no two TurnOn calls perform the same
\* OFF-to-ON transition.
NoDoubleActivation == act[RaceActuator].cycle_count <= activations

\* totalRuntime holds no run twice: no more runs were added to it than the
\* actuator was activated.
NoDoubleRuntime == additions <= activations

\* No TurnOff finds runtimeStartedAt cleared under it.
NoClearedClockSeen == \A t \in Threads : thr[t].pc # "raised"

\* C27: with manual-override commands running concurrently with the control
\* cycle, commands on one actuator are serialized: in no interleaving do two
\* TurnOn calls both perform the same OFF-to-ON transition, two TurnOff
\* calls both add the same run to totalRuntime, or a TurnOff observe
\* runtimeStartedAt already cleared by the other command.
C27_CommandsSerialized ==
  /\ NoDoubleActivation
  /\ NoDoubleRuntime
  /\ NoClearedClockSeen

\* -------------------------------------------------------------------- C28
\* C28: when the process has handled a shutdown signal or a fatal error of
\* the control loop and exits, no actuator is ON, whatever the actuators'
\* last state-change times and whatever the logger did in the handler.
C28_ShutdownBeforeExit ==
  pc = "exited" => \A n \in Actuators : act[n].state # "ON"

\* On return from stop() itself no actuator is ON, even one switched on
\* less than the minimum cycle time ago and even if the database write of
\* the logger failed.
StopLeavesAllOff ==
  op \in {"stop", "fatal"} => \A n \in Actuators : act[n].state # "ON"

EscalationOnlyOnTimeout ==
  [][(~emergency_mode /\ emergency_mode') =>
       (op' = "read_fail" /\ Truthy(last_reading_time)
        /\ now - last_reading_time > SensorTimeout)]_vars

\* The iterations up to the end of the horizon have run since the fault,
\* each with a successful sensor read, and no shutdown has happened.
FaultLeftAlone ==
  /\ now = MaxTime
  /\ pc = "sleep"
  /\ last_reading_time = now
  /\ act["chiller"].state = "FAULT"
  /\ changedAt["chiller"] = T0
  /\ act["pump"].state = "ON"
  /\ ~emergency_mode

\* -------------------------------------------------------------------- C30
\* C30: a TurnOn on an actuator that is ON returns true and changes none of
\* its fields (runtimeStartedAt, lastStateChangeAt and cycleCount keep their
\* values); a TurnOff on an actuator that is OFF returns true and changes
\* none of its fields.
C30_RepeatedCommandNoOp ==
  [][\A n \in Actuators :
       /\ (call'[n].cmd = "turn_on" /\ act[n].state = "ON") =>
            /\ call'[n].ok
            /\ ret'[n] = "T"
            /\ mid'[n] = act[n]
       /\ (call'[n].cmd = "turn_off" /\ act[n].state = "OFF") =>
            /\ call'[n].ok
            /\ ret'[n] = "T"
            /\ mid'[n] = act[n]]_vars

\* A TurnOn has returned true on an actuator that had been ON since before
\* this instant: its runtime clock still shows the earlier start.
C30_Witness ==
  \E n \in Actuators :
    /\ call[n].cmd = "turn_on" /\ call[n].ok
    /\ mid[n].state = "ON"
    /\ mid[n].runtime_start # None
    /\ mid[n].runtime_start < now
    /\ mid[n].last_state_change = mid[n].runtime_start
    /\ mid[n].cycle_count = 1

\* A TurnOff has returned true on an actuator that had been OFF since before
\* this instant, after one run.
RepeatedTurnOff ==
  \E n \in Actuators :
    /\ call[n].cmd = "turn_off" /\ call[n].ok
    /\ mid[n].state = "OFF"
    /\ mid[n].last_state_change < now
    /\ mid[n].cycle_count = 1
    /\ mid[n].total_runtime > 0

\* -------------------------------------------------------------------- C31
\* The oldest and the newest of the readings within the window of the
\* decision.
OldestInWindow == obs.history[SetMin(InWindow)]
NewestInWindow == obs.history[SetMax(InWindow)]

\* C31: when the temperature rate of a decision is defined, it equals
\* (newest in-window value - oldest in-window value) divided by their time
\* span in seconds, times 60, and likewise for the humidity rate; and a
\* decision of the predictive rule is taken on a rising temperature.
C31_RateSign ==
  Decided =>
    /\ obs.temp_rate.known =>
         obs.temp_rate.num
             * (NewestInWindow.timestamp - OldestInWindow.timestamp)
           = (NewestInWindow.temperature - OldestInWindow.temperature)
               * 60 * TicksPerSecond * obs.temp_rate.den
    /\ obs.humidity_rate.known =>
         obs.humidity_rate.num
             * (NewestInWindow.timestamp - OldestInWindow.timestamp)
           = (NewestInWindow.humidity - OldestInWindow.humidity)
               * 60 * TicksPerSecond * obs.humidity_rate.den
    /\ (last_decision.mode = "evaporative" /\ last_decision.priority = 5
        /\ obs.temp_urgency < 4) =>
         NewestInWindow.temperature > OldestInWindow.temperature

\* The rate has the size the claim states and the opposite sign.
RateMagnitude ==
  (Decided /\ obs.temp_rate.known) =>
    obs.temp_rate.num
        * (NewestInWindow.timestamp - OldestInWindow.timestamp)
      = (OldestInWindow.temperature - NewestInWindow.temperature)
          * 60 * TicksPerSecond * obs.temp_rate.den

\* The predictive rule has fired on a temperature that fell.
PredictiveOnFalling ==
  /\ Decided
  /\ last_decision.mode = "evaporative" /\ last_decision.priority = 5
  /\ obs.temp_urgency < 4
  /\ NewestInWindow.temperature < OldestInWindow.temperature

\* -------------------------------------------------------------------- C32
\* C32: for every input with temp below the target band (temp < tempTarget -
\* hysteresis), and so for every temp < tempMin, the decision returned has
\* chiller = false and pump = false.
C32_NoCoolingWhenCold ==
  (Decided /\ obs.temperature < temp_target - 5) =>
    (~last_decision.chiller /\ ~last_decision.pump)

\* -------------------------------------------------------------------- C33
\* C33: for every input with humidity < humidityMin the decision returned
\* has dehumidifier = false.
C33_NoDehumidifyWhenDry ==
  (Decided /\ obs.humidity < config.humidity_min) =>
    ~last_decision.dehumidifier

\* -------------------------------------------------------------------- C34
\* C34: for every actuator, every OFF-to-ON transition happens at least
\* minCycleTime after the actuator last went from ON to OFF, whichever
\* operation switched it off.  (While no output write has failed, an OFF
\* actuator's changedAt is the time it last went from ON to OFF.)
C34_RestartAfterMinCycle ==
  [][\A n \in Actuators :
       (/\ writeFailures' = 0
        /\ act[n].state = "OFF" /\ changedAt[n] # None
        /\ mid'[n].state = "ON")
         => now' - changedAt[n] >= MinCycleTime]_vars

\* The same for the actuators whose last switch-off was a turn_off.
RestartAfterTurnOff ==
  [][\A n \in Actuators :
       (/\ writeFailures' = 0
        /\ act[n].state = "OFF" /\ changedAt[n] # None
        /\ act[n].last_state_change = changedAt[n]
        /\ mid'[n].state = "ON")
         => now' - changedAt[n] >= MinCycleTime]_vars

\* -------------------------------------------------------------------- C35
\* C35: once emergency_mode is true it stays true, and while it is true no
\* handler (automatic decision, manual override, safety sweep) takes an
\* actuator from not ON to ON.
C35_EmergencyLatched ==
  [][emergency_mode =>
       /\ emergency_mode'
       /\ \A n \in Actuators :
            act[n].state # "ON" =>
              (mid'[n].state # "ON" /\ act'[n].state # "ON")]_vars

\* The flag itself is never cleared.
EmergencyModeStays == [][emergency_mode => emergency_mode']_vars

\* -------------------------------------------------------------------- C36
\* C36: after every operation of the controller, an actuator whose physical
\* output is energised is logically ON, output-write failures included: no
\* output is energised while its actuator is OFF or FAULT.
C36_EnergisedIsOn ==
  \A n \in Actuators : gpio[n] => act[n].state = "ON"

\* As long as no output write has failed, an energised output belongs to an
\* ON actuator.
EnergisedIsOnWithoutFailures ==
  writeFailures = 0 => \A n \in Actuators : gpio[n] => act[n].state = "ON"

\* -------------------------------------------------------------------- C37
\* C37: for every actuator, lastStateChangeAt never decreases, and every
\* transition from OFF to ON or from ON to OFF, by any operation (TurnOn,
\* TurnOff, safety sweep, EmergencyStop), sets lastStateChangeAt to the time
\* of that transition.
C37_StateChangeStamped ==
  [][\A n \in Actuators :
       /\ act'[n].last_state_change >= act[n].last_state_change
       /\ ((act[n].state = "OFF" /\ mid'[n].state = "ON")
           \/ (act[n].state = "ON" /\ mid'[n].state = "OFF"))
            => mid'[n].last_state_change = now']_vars

\* lastStateChangeAt never decreases, and the transitions made by turn_on
\* and turn_off are stamped.
StampedByTurnOnOff ==
  [][\A n \in Actuators :
       /\ act'[n].last_state_change >= act[n].last_state_change
       /\ (/\ call'[n].cmd \in {"turn_on", "turn_off"}
           /\ \/ (act[n].state = "OFF" /\ mid'[n].state = "ON")
              \/ (act[n].state = "ON" /\ mid'[n].state = "OFF"))
            => mid'[n].last_state_change = now']_vars

\* -------------------------------------------------------------------- C38
Critical == {"critically high", "high", "critically low"}
TargetDeviation == {"above target", "below target"}
PredictiveBand == {"rising rapidly", "falling rapidly"}

\* The three precedence statements for one quantity: its value, its
\* assessment, and its min, max, target and hysteresis.
Precedence(v, label, lo, hi, target, hysteresis) ==
  /\ (v > hi \/ v < lo) => label \in Critical
  /\ label \in TargetDeviation => (lo <= v /\ v <= hi)
  /\ label \in PredictiveBand =>
       /\ lo <= v /\ v <= hi
       /\ target - hysteresis <= v /\ v <= target + hysteresis

BothPrecedences ==
  /\ Precedence(obs.temperature, obs.temp_assessment, config.temp_min,
                config.temp_max, temp_target, 5)
  /\ Precedence(obs.humidity, obs.humidity_assessment, config.humidity_min,
                config.humidity_max, humidity_target, 20)

\* C38: in assess_temperature and assess_humidity, for every setpoint
\* configuration reachable through construction, set_targets and
\* load_preset: a value above max or below min is assessed as critical, a
\* target-deviation result is returned only for values within [min, max],
\* and a predictive result only for values within the target band.
C38_BandPrecedence == Decided => BothPrecedences

\* The same while both targets are not below the band's lower end less the
\* hysteresis, as they are at construction.
PrecedenceWithTargetsInRange ==
  (/\ Decided
   /\ temp_target + 5 >= config.temp_min
   /\ humidity_target + 20 >= config.humidity_min)
    => BothPrecedences

\* -------------------------------------------------------------------- C39
\* C39: add_reading, make_decision, set_targets, load_preset and
\* get_statistics leave current_mode, last_decision, last_mode_change, the
\* decision counter, the per-mode duration counters and the spray timer
\* unchanged, and current_mode changes in no step but an execute_decision;
\* each execute_decision sets current_mode and last_decision from the
\* decision, increments the decision counter by exactly 1, and resets the
\* spray timer if and only if decision.pump is true.
C39_ModeOnlyThroughExecute ==
  [][/\ eop' \in {"add_reading", "make_decision", "set_targets",
                  "load_preset", "get_statistics"} =>
          /\ current_mode' = current_mode
          /\ last_decision' = last_decision
          /\ last_mode_change' = last_mode_change
          /\ decisions_made' = decisions_made
          /\ mode_durations' = mode_durations
          /\ spray_last_activated' = spray_last_activated
     /\ current_mode' # current_mode => eop' = "execute_decision"
     /\ eop' = "execute_decision" =>
          /\ current_mode' = obs.decision.mode
          /\ last_decision' = obs.decision
          /\ decisions_made' = decisions_made + 1
          /\ spray_last_activated' =
               IF obs.decision.pump THEN clock ELSE spray_last_activated]_vars

\* A decision without the pump has been executed after one with the pump,
\* later on the clock: the mode has changed, the counter stands at 2 and the
\* spray timer still shows the time of the first.
C39_Witness ==
  /\ eop = "execute_decision"
  /\ decisions_made = 2
  /\ ~last_decision.pump
  /\ current_mode = "dehumidify"
  /\ spray_last_activated > 0
  /\ spray_last_activated < clock

\* -------------------------------------------------------------------- C40
\* C40: make_decision never returns the pump-only EVAPORATIVE mode while
\* fewer than spray_cooldown seconds have passed since the last executed
\* decision with pump = true, whichever rule produces the decision.
C40_NoSprayInCooldown ==
  [][(/\ calls' = calls + 1
      /\ eop' \in {"decide", "execute"}
      /\ obs'.decision.mode = "evaporative")
       => clock - spray_last_activated >= SprayCooldown * TicksPerSecond]_vars

\* The same for the decisions of the moderate-heat rule, which carry the
\* temperature urgency (4, 6 or 7) as their priority.
ModerateHeatRespectsCooldown ==
  [][(/\ calls' = calls + 1
      /\ eop' \in {"decide", "execute"}
      /\ obs'.decision.mode = "evaporative"
      /\ obs'.decision.priority # 5)
       => clock - spray_last_activated >= SprayCooldown * TicksPerSecond]_vars

====
